---- MODULE Spec2Model ----
(***************************************************************************)
(* Model of the Modbus Manager local agent (src/agent.js).                 *)
(*                                                                         *)
(* Spec      the ModbusAgent control channel (connect, the WebSocket       *)
(*           open/close handlers, scheduleReconnect, the JWT refresh       *)
(*           timer) together with the bulk uploader, the offline drain     *)
(*           and the two buffers they move samples between.                *)
(* SpecPoll  the PollingScheduler: startPolling / stopPolling, the group   *)
(*           interval timers and the pollGroup iterations they start.      *)
(* SpecHouse the control channel with fetchAndApplyActiveConfig.           *)
(* SpecHist  a HistoricalDataBuffer on its own.                            *)
(* SpecOpt   a call of RegisterOptimizer.optimizeRegisterReads on its own. *)
(* SpecTx    pollGroup together with sendBatchedUpdates.                   *)
(* SpecPool  pollGroup calls and connectToDevice on agent.deviceConnections *)
(*           with the sockets of the clients it holds.                     *)
(* SpecConfig the config checks: fetchAndApplyActiveConfig answered with   *)
(*           a config id, without a config, or not at all.                 *)
(* SpecCmd   handleCommand and the command handlers over the channel.      *)
(* SpecKey   a ValueCache on its own, with its key strings.                *)
(* SpecNorm  the optimizer for registers around the limits of normalize.   *)
(* SpecStatus the channel and the config checks, with fairness.            *)
(* SpecChan, SpecOverlap, SpecSched, SpecCall, SpecRbe, SpecBatch and       *)
(*           SpecSet are cuts of the above.                                *)
(*                                                                         *)
(* The code is single threaded: every action is one run of a handler from  *)
(* one await (or timer / socket event) to the next.                        *)
(***************************************************************************)
EXTENDS Integers, Sequences, FiniteSets, TLC

(* ------------------------------------------------------------------ *)
(* Bounds of the model                                                 *)
(* ------------------------------------------------------------------ *)
\* WebSocket objects the agent creates in one behaviour
MaxSockets == 3
\* samples the poll iterations append in one behaviour of Spec
MaxSamples == 2
\* bulk-upload requests in flight at once
MaxUploads == 1
\* offline drains in flight at once
MaxDrains == 1
\* JWT-refresh timer callbacks awaiting refreshJwt at once
MaxRefresh == 1
\* pollGroup calls in flight at once (SpecPoll, SpecSched)
MaxInflight == 1
\* pollGroup calls started in one behaviour (SpecPoll, SpecSched)
MaxIters == 1
\* pollGroup calls started, and in flight at once, in SpecOverlap
MaxOverlap == 2
\* armed poll intervals that this.timers has lost track of
MaxStray == 2
\* clock ticks in one behaviour
MaxTime == 1

\* fetchAndApplyActiveConfig calls awaiting their fetch at once
MaxFetch == 1
\* largest maxBufferSize of a HistoricalDataBuffer on its own
MaxCap == 3
\* samples added to it between two clearBuffer calls
MaxAdds == 5
\* pollGroup calls started in one behaviour of SpecTx
MaxTxCalls == 3
\* registers in a list given to the optimizer on its own
MaxRegs == 3
\* their addresses are 1..MaxAddr
MaxAddr == 4
\* largest maxBlockSize given to the optimizer on its own
MaxBlock == 2
\* Modbus connections established in one behaviour
MaxClients == 2
\* the same where a call is followed through its reconnects
MaxPollClients == 3
\* pollGroup calls where the connection pool is looked at
MaxPoolCalls == 2
\* pollGroup calls where the Value Cache is looked at
MaxCacheCalls == 2
\* updateValue calls on a ValueCache on its own
MaxUpdates == 2
\* addresses of a network_scan range
ScanLen == 2
\* params.pingCount of a test_communication command
MaxPings == 2

(* ------------------------------------------------------------------ *)
(* Program constants                                                   *)
(* ------------------------------------------------------------------ *)
\* new HistoricalDataBuffer(10000)
maxBufferSize == 10000
\* const batchSize = 1000 in uploadOfflineBuffer, scaled down to 1 so that
\* a drain of two samples takes two chunks
batchSize == 1

VARIABLES
  \* ---- ModbusAgent, control channel
  started,           \* the CLI entry point has called agent.connect()
  crashed,           \* the process ended on an uncaught exception / rejection
  jwt,               \* "none" | "valid" | "expiring" (isJwtExpiringSoon)
  sockets,           \* readyState of every WebSocket created so far
  ws,                \* this.ws: 0 (null) or an index into sockets
  isOnline,          \* this.isOnline (undefined counts as FALSE)
  reconnectTimeout,  \* this.reconnectTimeout is set
  connectAwait,      \* connect() calls awaiting refreshJwt (not in a try)
  refreshAwait,      \* JWT-refresh callbacks awaiting refreshJwt
  timers,            \* housekeeping setInterval handles
  polling,           \* a polling config has been applied (poll timers run)
  \* ---- buffers
  offlineBuffer,     \* this.offlineBuffer: Undefined or an OfflineBuffer
  bufferFile,        \* content of offline-buffer.json (<<>>: no file)
  dataPoints,        \* historicalBuffer.dataPoints
  nextSample,        \* id of the next sample a poll iteration appends
  uploads,           \* snapshots of uploadHistoricalData calls awaiting fetch
  drains,            \* uploadOfflineBuffer calls awaiting fetch
  \* ---- history (not program state)
  delivered,         \* samples that were in a successful ingest POST
  everBuffered,      \* samples ever written to offline-buffer.json
  lastUpload,        \* what the last uploadHistoricalData call that returned did
  lastDrain,         \* what the last uploadOfflineBuffer call that returned did
  lastConnect,       \* how the last connect() call ended
  \* ---- PollingScheduler and what pollGroup works on
  schedConfig,       \* pollingScheduler.config: the config last applied
  schedTimers,       \* pollingScheduler.timers: Map groupId -> interval
  strayTimers,       \* armed intervals that this.timers no longer holds
  iterations,        \* pollGroup calls in flight (each at an await)
  nextIter,          \* number of the next pollGroup call
  deviceConnections, \* agent.deviceConnections: cache key -> client (0: no entry)
  clients,           \* the Modbus clients whose connect resolved, and their sockets
  valueCache,        \* valueCache.cache
  changeBuffer,      \* transmitBuffer.changeBuffer
  refreshDue,        \* transmitBuffer.shouldSendFullRefresh()
  now,               \* the clock, in ticks
  finished,          \* history: the pollGroup calls that have returned
  cacheWrites,       \* history: <<call, cache key>> of every updateValue
  txSince,           \* history: queueChange calls per cache key since the last full refresh
  chgSince,          \* history: value changes per cache key since the last full refresh
  chgTick,           \* history: value changes since the last run of sendBatchedUpdates
  \* ---- config fetches
  configFetch,       \* fetchAndApplyActiveConfig calls awaiting the fetch
  currentConfigId,   \* this.currentConfigId ("none": not set)
  settings,          \* which config set fullRefreshInterval, batchWindow, historicalBatchInterval
  lastResponse,      \* history: the answer the last config check got, and the configId it found
  \* ---- a HistoricalDataBuffer on its own
  histMax,           \* its maxBufferSize
  histData,          \* its dataPoints
  histAdded,         \* history: the samples added since the last clearBuffer
  \* ---- a call of RegisterOptimizer.optimizeRegisterReads on its own
  optRegisters,      \* the registers argument (present: not null / undefined)
  optMax,            \* the maxBlockSize argument
  optResult,         \* what the call returned, once it has
  \* ---- batch transmit
  lastTick,          \* history: what the last two runs of sendBatchedUpdates did
  \* ---- REST requests
  agentId,           \* this.agentId is set (a welcome frame carried one)
  requests,          \* history: the bearer requests sent, with their credential
  \* ---- commands
  command,           \* the handleCommand call in flight, if any
  \* ---- a ValueCache on its own
  keyCache,          \* its cache: key string -> value
  passed             \* history: the value last passed to updateValue for each id pair

agentVars == <<started, crashed, jwt, sockets, ws, isOnline, reconnectTimeout,
               connectAwait, refreshAwait, timers, polling>>
bufferVars == <<offlineBuffer, bufferFile, dataPoints, nextSample, uploads, drains>>
historyVars == <<delivered, everBuffered, lastUpload, lastDrain, lastConnect>>
pollVars == <<schedConfig, schedTimers, strayTimers, iterations, nextIter,
              deviceConnections, clients, valueCache, changeBuffer, refreshDue, now, finished,
              cacheWrites, txSince, chgSince, chgTick>>
\* what the scheduler's actions leave alone
\* what only the actions of one component touch
fetchVars == <<configFetch, currentConfigId, settings, lastResponse>>
histVars == <<histMax, histData, histAdded>>
optVars == <<optRegisters, optMax, optResult>>
txVars == <<lastTick>>
authVars == <<agentId, requests>>
cmdVars == <<command>>
keyVars == <<keyCache, passed>>
auxVars == <<fetchVars, histVars, optVars, txVars, authVars, cmdVars, keyVars>>
notPollVars == <<agentVars, offlineBuffer, bufferFile, nextSample, uploads, drains,
                 historyVars, auxVars>>
\* what the agent's channel and upload actions leave alone
otherVars == <<pollVars, auxVars>>
\* what the actions that send a REST request leave alone of these
restVars == <<pollVars, fetchVars, histVars, optVars, txVars, cmdVars, keyVars>>
vars == <<agentVars, bufferVars, historyVars, pollVars, auxVars>>

(* ------------------------------------------------------------------ *)
(* Helpers                                                             *)
(* ------------------------------------------------------------------ *)
Range(s) == {s[i] : i \in 1..Len(s)}

RemoveAt(s, k) == [i \in 1..(Len(s) - 1) |-> IF i < k THEN s[i] ELSE s[i + 1]]

Min(a, b) == IF a < b THEN a ELSE b

\* the first n elements
KeepFirst(s, n) == SubSeq(s, 1, Min(n, Len(s)))

\* Array.prototype.slice(-n): the last n elements (slice(-0) is slice(0),
\* the whole array)
SliceLast(s, n) == IF n = 0 \/ Len(s) <= n THEN s ELSE SubSeq(s, Len(s) - n + 1, Len(s))

TimerKinds == {"heartbeat", "batchTransmit", "historicalUpload", "configCheck", "jwtRefresh"}

Undefined == [defined |-> FALSE, isOffline |-> FALSE]

\* OfflineBuffer constructor: isOffline = false, the file is left as it is
OfflineBufferNew == [defined |-> TRUE, isOffline |-> FALSE]

NoUpload == [snap |-> <<>>, outcome |-> "none", inOffline |-> FALSE, histEmpty |-> FALSE]
NoDrain == [data |-> <<>>, cleared |-> FALSE, allOk |-> FALSE, stopped |-> FALSE,
            fileKept |-> FALSE]

(* ------------------------------------------------------------------ *)
(* HistoricalDataBuffer                                                *)
(* ------------------------------------------------------------------ *)
\* addDataPoint: push, then keep the newest maxBufferSize records
HistAdd(buf, sample, cap) ==
  LET pushed == Append(buf, sample)
  IN IF Len(pushed) > cap THEN SliceLast(pushed, cap) ELSE pushed

(* ------------------------------------------------------------------ *)
(* OfflineBuffer                                                       *)
(* ------------------------------------------------------------------ *)
\* addDataPoints: ignored unless isOffline; otherwise read file, extend, write
addDataPoints(ob, file, points) ==
  IF ~ob.isOffline \/ points = <<>> THEN file ELSE file \o points

\* the samples addDataPoints wrote on this call
Written(ob, points) ==
  IF ~ob.isOffline \/ points = <<>> THEN {} ELSE Range(points)

(* ------------------------------------------------------------------ *)
(* Housekeeping timers                                                 *)
(* ------------------------------------------------------------------ *)
\* startX: this.xInterval = setInterval(...). A handle already held is
\* overwritten without clearInterval: that interval keeps firing (leaked).
StartTimer(t) ==
  IF t.armed THEN [t EXCEPT !.leaked = @ + 1] ELSE [t EXCEPT !.armed = TRUE]

\* stopX: clearInterval(this.xInterval); this.xInterval = null
StopTimer(t) == [t EXCEPT !.armed = FALSE]

Firing(kind) == timers[kind].armed \/ timers[kind].leaked > 0

(* ------------------------------------------------------------------ *)
(* Initial state: new ModbusAgent(token)                               *)
(* ------------------------------------------------------------------ *)
\* The constructor does not assign this.offlineBuffer although the open,
\* close and upload code dereferences it.  Both agents are covered: the
\* one the constructor builds (Undefined: the first handler that touches
\* the field throws) and the one holding an OfflineBuffer instance.
InitAgent ==
  /\ started = FALSE
  /\ crashed = FALSE
  /\ jwt = "none"
  /\ sockets = <<>>
  /\ ws = 0
  /\ isOnline = FALSE
  /\ reconnectTimeout = FALSE
  /\ connectAwait = 0
  /\ refreshAwait = 0
  /\ timers = [k \in TimerKinds |-> [armed |-> FALSE, leaked |-> 0]]
  /\ polling = FALSE
  /\ offlineBuffer \in {Undefined, OfflineBufferNew}
  /\ bufferFile = <<>>
  /\ dataPoints = <<>>
  /\ nextSample = 1
  /\ uploads = <<>>
  /\ drains = <<>>
  /\ delivered = {}
  /\ everBuffered = {}
  /\ lastUpload = NoUpload
  /\ lastDrain = NoDrain
  /\ lastConnect = "none"


(* ------------------------------------------------------------------ *)
(* ModbusAgent.connect and the reconnect loop                          *)
(* ------------------------------------------------------------------ *)
\* connect() needs a token exchange first: !this.jwt || isJwtExpiringSoon()
NeedsJwt == jwt \in {"none", "expiring"}

(* ------------------------------------------------------------------ *)
(* The Authorization header of the REST requests                       *)
(* ------------------------------------------------------------------ *)
\* this.token: the field the header is built from.  No statement of the
\* file assigns it (the constructor keeps its argument as
\* this.registrationToken, refreshJwt stores this.jwt)
token == "undefined"

\* this.jwt: null until refreshJwt has stored data.jwt
JwtValue(j) == IF j = "none" THEN "null" ELSE "jwt"

\* fetch(..., {headers: {'Authorization': `Bearer ${this.token}`}})
SendWith(kind, status) ==
  requests \cup {[kind |-> kind, bearer |-> token, stored |-> JwtValue(jwt),
                  status |-> status]}

Send(kind) == SendWith(kind, "none")

\* updateBufferingStatus: the status PATCH, once the agent knows its id;
\* buffering_status is this.isOnline ? 'online' : 'buffering'
updateBufferingStatus(online) ==
  IF agentId THEN SendWith("status", IF online THEN "online" ELSE "buffering")
  ELSE requests

InitAuth == agentId = FALSE /\ requests = {}

\* no command is in flight
NoCommand == [command |-> "none", stage |-> "none"]

InitCmd == command = NoCommand

\* new ValueCache(): an empty Map
InitKey == keyCache = <<>> /\ passed = <<>>

\* this.ws = new WebSocket(wsUrl): the previous this.ws is only forgotten
CanCreate == Len(sockets) < MaxSockets
NewSocket(socks) == Append(socks, "connecting")

\* the CLI entry point: agent.connect(); the promise is dropped
Main ==
  /\ ~crashed /\ ~started
  /\ started' = TRUE
  /\ connectAwait' = connectAwait + 1
  /\ UNCHANGED <<crashed, jwt, sockets, ws, isOnline, reconnectTimeout, refreshAwait, timers, polling>>
  /\ UNCHANGED <<bufferVars, historyVars>>
  /\ UNCHANGED otherVars

\* refreshJwt resolved inside connect(): the socket is created
ConnectAuthOk ==
  /\ ~crashed /\ connectAwait > 0 /\ CanCreate
  /\ connectAwait' = connectAwait - 1
  /\ jwt' = "valid"
  /\ sockets' = NewSocket(sockets)
  /\ ws' = Len(sockets) + 1
  /\ lastConnect' = "socket"
  /\ UNCHANGED <<started, crashed, isOnline, reconnectTimeout, refreshAwait, timers, polling>>
  /\ UNCHANGED <<bufferVars, delivered, everBuffered, lastUpload, lastDrain>>
  /\ UNCHANGED otherVars

\* refreshJwt threw inside connect(): connect() rejects before any socket
\* exists, so no close event follows and scheduleReconnect is not called.
\* Nobody awaits the promise: the rejection is unhandled, which ends the
\* process or only warns, depending on the runtime's unhandled-rejection mode.
ConnectAuthFail ==
  /\ ~crashed /\ connectAwait > 0
  /\ connectAwait' = connectAwait - 1
  /\ crashed' \in BOOLEAN
  /\ lastConnect' = "authFailed"
  /\ UNCHANGED <<started, jwt, sockets, ws, isOnline, reconnectTimeout, refreshAwait, timers, polling>>
  /\ UNCHANGED <<bufferVars, delivered, everBuffered, lastUpload, lastDrain>>
  /\ UNCHANGED otherVars

\* scheduleReconnect: if (this.reconnectTimeout) return; else setTimeout
scheduleReconnect(pending) == IF pending THEN pending ELSE TRUE

\* the reconnect timeout fires: this.reconnectTimeout = null; this.connect()
ReconnectFire ==
  /\ ~crashed /\ reconnectTimeout
  /\ reconnectTimeout' = FALSE
  /\ IF NeedsJwt
       THEN /\ connectAwait' = connectAwait + 1
            /\ UNCHANGED <<sockets, ws, lastConnect>>
       ELSE /\ CanCreate
            /\ sockets' = NewSocket(sockets)
            /\ ws' = Len(sockets) + 1
            /\ lastConnect' = "socket"
            /\ UNCHANGED connectAwait
  /\ UNCHANGED <<started, crashed, jwt, isOnline, refreshAwait, timers, polling>>
  /\ UNCHANGED <<bufferVars, delivered, everBuffered, lastUpload, lastDrain>>
  /\ UNCHANGED otherVars

\* time passes: less than five minutes of the token's life remain
JwtAges ==
  /\ ~crashed /\ jwt = "valid"
  /\ jwt' = "expiring"
  /\ UNCHANGED <<started, crashed, sockets, ws, isOnline, reconnectTimeout,
                 connectAwait, refreshAwait, timers, polling>>
  /\ UNCHANGED <<bufferVars, historyVars>>
  /\ UNCHANGED otherVars

(* ------------------------------------------------------------------ *)
(* WebSocket events.  The handlers are closures over the agent, not    *)
(* over the socket: an event of a superseded socket acts on the agent. *)
(* ------------------------------------------------------------------ *)
\* ws.on('open')
WsOpen(i) ==
  /\ ~crashed /\ i \in 1..Len(sockets) /\ sockets[i] = "connecting"
  /\ sockets' = [sockets EXCEPT ![i] = "open"]
  /\ isOnline' = TRUE
  /\ IF ~offlineBuffer.defined
       THEN \* this.offlineBuffer.stopBuffering(): TypeError out of the listener
            /\ crashed' = TRUE
            /\ UNCHANGED <<timers, offlineBuffer, drains, requests>>
       ELSE /\ offlineBuffer' = [offlineBuffer EXCEPT !.isOffline = FALSE]
            \* uploadOfflineBuffer() up to its first fetch
            /\ IF bufferFile = <<>>
                 THEN UNCHANGED <<drains, requests>>
                 ELSE /\ Len(drains) < MaxDrains
                      /\ drains' = Append(drains, [data |-> bufferFile, i |-> 0, failed |-> FALSE])
                      /\ requests' = Send("drain")
            /\ timers' = [k \in TimerKinds |-> StartTimer(timers[k])]
            /\ UNCHANGED crashed
  /\ UNCHANGED <<started, jwt, ws, reconnectTimeout, connectAwait, refreshAwait, polling>>
  /\ UNCHANGED <<bufferFile, dataPoints, nextSample, uploads, historyVars>>
  /\ UNCHANGED <<agentId, restVars>>

\* ws.on('close'), also after a failed handshake ('error', then 'close')
WsClose(i) ==
  /\ ~crashed /\ i \in 1..Len(sockets) /\ sockets[i] \in {"connecting", "open", "closing"}
  /\ sockets' = [sockets EXCEPT ![i] = "closed"]
  /\ isOnline' = FALSE
  /\ IF ~offlineBuffer.defined
       THEN \* this.offlineBuffer.startBuffering(): TypeError out of the listener
            /\ crashed' = TRUE
            /\ UNCHANGED <<timers, offlineBuffer, reconnectTimeout, requests>>
       ELSE /\ offlineBuffer' = [offlineBuffer EXCEPT !.isOffline = TRUE]
            /\ requests' = updateBufferingStatus(isOnline')
            /\ timers' = [k \in TimerKinds |-> StopTimer(timers[k])]
            /\ reconnectTimeout' = scheduleReconnect(reconnectTimeout)
            /\ UNCHANGED crashed
  /\ UNCHANGED <<started, jwt, ws, connectAwait, refreshAwait, polling>>
  /\ UNCHANGED <<bufferFile, dataPoints, nextSample, uploads, drains, historyVars>>
  /\ UNCHANGED <<agentId, restVars>>

(* ------------------------------------------------------------------ *)
(* startJwtRefresh: the 55 minute interval                             *)
(* ------------------------------------------------------------------ *)
JwtRefreshTick ==
  /\ ~crashed /\ Firing("jwtRefresh") /\ refreshAwait < MaxRefresh
  /\ refreshAwait' = refreshAwait + 1
  /\ UNCHANGED <<started, crashed, jwt, sockets, ws, isOnline, reconnectTimeout,
                 connectAwait, timers, polling>>
  /\ UNCHANGED <<bufferVars, historyVars>>
  /\ UNCHANGED otherVars

\* refreshJwt resolved in the callback: if the socket is open, close it and
\* connect() at once (the token is fresh, so connect() does not await)
JwtRefreshOk ==
  /\ ~crashed /\ refreshAwait > 0
  /\ refreshAwait' = refreshAwait - 1
  /\ jwt' = "valid"
  /\ IF ws # 0 /\ sockets[ws] = "open"
       THEN /\ CanCreate
            /\ sockets' = NewSocket([sockets EXCEPT ![ws] = "closing"])
            /\ ws' = Len(sockets) + 1
            /\ lastConnect' = "socket"
       ELSE UNCHANGED <<sockets, ws, lastConnect>>
  /\ UNCHANGED <<started, crashed, isOnline, reconnectTimeout, connectAwait, timers, polling>>
  /\ UNCHANGED <<bufferVars, delivered, everBuffered, lastUpload, lastDrain>>
  /\ UNCHANGED otherVars

\* refreshJwt threw in the callback: caught and logged
JwtRefreshFail ==
  /\ ~crashed /\ refreshAwait > 0
  /\ refreshAwait' = refreshAwait - 1
  /\ UNCHANGED <<started, crashed, jwt, sockets, ws, isOnline, reconnectTimeout,
                 connectAwait, timers, polling>>
  /\ UNCHANGED <<bufferVars, historyVars>>
  /\ UNCHANGED otherVars


(* ------------------------------------------------------------------ *)
(* A polling config arrives                                            *)
(* ------------------------------------------------------------------ *)
\* A frame on an open socket (the welcome frame's config fetch, or a
\* set_polling_config command) ends in pollingScheduler.startPolling: from
\* then on the poll timers run, whatever the channel does.
ApplyPollingConfig ==
  /\ ~crashed /\ ~polling
  /\ \E i \in 1..Len(sockets) : sockets[i] = "open"
  /\ polling' = TRUE
  /\ UNCHANGED <<started, crashed, jwt, sockets, ws, isOnline, reconnectTimeout,
                 connectAwait, refreshAwait, timers>>
  /\ UNCHANGED <<bufferVars, historyVars>>
  /\ UNCHANGED otherVars

(* ------------------------------------------------------------------ *)
(* Poll iterations feed the Historical Buffer                          *)
(* ------------------------------------------------------------------ *)
\* historicalBuffer.addDataPoint, as called by pollGroup (SpecPoll has the
\* iterations themselves); samples are numbered in the order they are made
addDataPoint ==
  /\ ~crashed /\ polling /\ nextSample <= MaxSamples
  /\ dataPoints' = HistAdd(dataPoints, nextSample, maxBufferSize)
  /\ nextSample' = nextSample + 1
  /\ UNCHANGED <<offlineBuffer, bufferFile, uploads, drains>>
  /\ UNCHANGED <<agentVars, historyVars>>
  /\ UNCHANGED otherVars

(* ------------------------------------------------------------------ *)
(* ModbusAgent.uploadHistoricalData                                    *)
(* ------------------------------------------------------------------ *)
\* !this.isOnline || !this.ws || this.ws.readyState !== WebSocket.OPEN
NotOpen == ~isOnline \/ ws = 0 \/ sockets[ws] # "open"

Responses == {"success", "notSuccess", "httpError", "networkError"}

\* the historicalUpload interval fires: the call up to its first await
UploadTick ==
  /\ ~crashed /\ Firing("historicalUpload")
  /\ dataPoints # <<>>
  \* (with this.offlineBuffer undefined no housekeeping timer is ever armed)
  /\ offlineBuffer.defined
  /\ IF NotOpen
       THEN /\ bufferFile' = addDataPoints(offlineBuffer, bufferFile, dataPoints)
            /\ everBuffered' = everBuffered \cup Written(offlineBuffer, dataPoints)
            /\ dataPoints' = <<>>
            /\ lastUpload' = [snap |-> dataPoints, outcome |-> "offline",
                              inOffline |-> Range(dataPoints) \subseteq Range(bufferFile'),
                              histEmpty |-> dataPoints' = <<>>]
            /\ requests' = updateBufferingStatus(isOnline)
            /\ UNCHANGED uploads
       ELSE /\ Len(uploads) < MaxUploads
            /\ uploads' = Append(uploads, dataPoints)
            /\ requests' = Send("ingest")
            /\ UNCHANGED <<bufferFile, everBuffered, dataPoints, lastUpload>>
  /\ UNCHANGED <<offlineBuffer, nextSample, drains>>
  /\ UNCHANGED <<agentVars, delivered, lastDrain, lastConnect>>
  /\ UNCHANGED <<agentId, restVars>>

\* the ingest POST of upload k is answered (or fails): the rest of the call
UploadResponse(k, r) ==
  /\ ~crashed /\ k \in 1..Len(uploads)
  /\ LET snap == uploads[k] IN
     /\ uploads' = RemoveAt(uploads, k)
     /\ CASE r = "success" ->
               /\ dataPoints' = <<>>
               /\ delivered' = delivered \cup Range(snap)
               /\ UNCHANGED <<bufferFile, everBuffered>>
          [] r \in {"notSuccess", "httpError"} ->
               /\ bufferFile' = addDataPoints(offlineBuffer, bufferFile, snap)
               /\ everBuffered' = everBuffered \cup Written(offlineBuffer, snap)
               /\ UNCHANGED <<dataPoints, delivered>>
          [] r = "networkError" ->
               /\ bufferFile' = addDataPoints(offlineBuffer, bufferFile, snap)
               /\ everBuffered' = everBuffered \cup Written(offlineBuffer, snap)
               /\ dataPoints' = <<>>
               /\ UNCHANGED delivered
     /\ lastUpload' = [snap |-> snap, outcome |-> r,
                       inOffline |-> Range(snap) \subseteq Range(bufferFile'),
                       histEmpty |-> dataPoints' = <<>>]
  /\ requests' = updateBufferingStatus(isOnline)
  /\ UNCHANGED <<offlineBuffer, nextSample, drains>>
  /\ UNCHANGED <<agentVars, lastDrain, lastConnect>>
  /\ UNCHANGED <<agentId, restVars>>


(* ------------------------------------------------------------------ *)
(* ModbusAgent.uploadOfflineBuffer (started by the open handler)       *)
(* ------------------------------------------------------------------ *)
\* OfflineBuffer.clearBuffer: unlink the file, whatever it holds by now
clearBuffer(file) == <<>>

\* what the loop does with the answer to one chunk: "next" chunk or "throw"
\*   response.ok and result.success : logs, next chunk
\*   response.ok, success not true  : nothing, next chunk
\*   not response.ok                : throw new Error(HTTP status)
\*   fetch rejected                 : throws
ChunkStep(r) == IF r \in {"success", "notSuccess"} THEN "next" ELSE "throw"

\* the ingest POST of the current chunk of drain k is answered
DrainResponse(k, r) ==
  /\ ~crashed /\ k \in 1..Len(drains)
  /\ LET d == drains[k]
         chunk == SubSeq(d.data, d.i + 1, Min(d.i + batchSize, Len(d.data)))
         failed == d.failed \/ r # "success"
     IN
     IF ChunkStep(r) = "next"
       THEN /\ delivered' = IF r = "success" THEN delivered \cup Range(chunk) ELSE delivered
            /\ IF d.i + batchSize < Len(d.data)
                 THEN /\ drains' = [drains EXCEPT ![k] = [d EXCEPT !.i = d.i + batchSize,
                                                                   !.failed = failed]]
                      /\ requests' = Send("drain")
                      /\ UNCHANGED <<bufferFile, lastDrain>>
                 ELSE /\ drains' = RemoveAt(drains, k)
                      /\ bufferFile' = clearBuffer(bufferFile)
                      /\ requests' = updateBufferingStatus(isOnline)
                      /\ lastDrain' = [data |-> d.data, cleared |-> TRUE, allOk |-> ~failed,
                                       stopped |-> FALSE, fileKept |-> FALSE]
       ELSE \* caught: "Will retry on next connection"
            /\ drains' = RemoveAt(drains, k)
            /\ lastDrain' = [data |-> d.data, cleared |-> FALSE, allOk |-> FALSE,
                             stopped |-> TRUE,
                             fileKept |-> Range(d.data) \subseteq Range(bufferFile)]
            /\ UNCHANGED <<bufferFile, delivered, requests>>
  /\ UNCHANGED <<offlineBuffer, dataPoints, nextSample, uploads>>
  /\ UNCHANGED <<agentVars, everBuffered, lastUpload, lastConnect>>
  /\ UNCHANGED <<agentId, restVars>>

(* ================================================================== *)
(* Polling engine                                                      *)
(* ================================================================== *)

(* ------------------------------------------------------------------ *)
(* Polling configs the control plane may send                          *)
(* ------------------------------------------------------------------ *)
Reg(id, addr) == [registerId |-> id, address |-> addr]
Grp(id, regs) == [groupId |-> id, registers |-> regs]
\* protocolFirst: "protocol" is the first field of connectionParams
Dev(id, proto, first, groups) ==
  [deviceId |-> id, protocol |-> proto, protocolFirst |-> first, pollGroups |-> groups]

ConfigIds == {"A", "B", "C"}

\* A: one TCP device, one group of three registers listed out of address
\*    order, two of them contiguous (two read blocks)
\* B: two devices whose groups have the same groupId
\* C: one TCP device, an input-register style address and address 0
\* D: one TCP device with two groups
\* E: one TCP device whose connectionParams do not start with the protocol
\*    (it is given at device level only, or after other fields)
PollingConfig(c) ==
  CASE c = "A" ->
         << Dev("D1", "tcp", TRUE,
                << Grp("G1", << Reg("r3", 40004), Reg("r1", 40001), Reg("r2", 40002) >>) >>) >>
    [] c = "B" ->
         << Dev("D1", "tcp", TRUE, << Grp("G1", << Reg("r1", 40001) >>) >>),
            Dev("D2", "rtu", TRUE, << Grp("G1", << Reg("r1", 7) >>) >>) >>
    [] c = "D" ->
         << Dev("D1", "tcp", TRUE,
                << Grp("G1", << Reg("r1", 40001) >>), Grp("G2", << Reg("r2", 40002) >>) >>) >>
    [] c = "E" ->
         << Dev("D2", "tcp", FALSE, << Grp("G1", << Reg("r1", 7) >>) >>) >>
    [] OTHER ->
         << Dev("D1", "tcp", TRUE,
                << Grp("G1", << Reg("r1", 30002), Reg("r2", 0) >>) >>) >>

\* the configs applied where the connection pool is looked at
PoolConfigs == {"D", "E"}

GroupIds == {"G1", "G2"}
\* register words a device may answer (compared for equality only)
Values == {"10", "11"}

\* one interval timer: the (device, group) of config cfg its callback polls
TimerRecs ==
  UNION {{[cfg |-> c, d |-> d, g |-> g] : g \in 1..Len(PollingConfig(c)[d].pollGroups)} :
           <<c, d>> \in {<<c, d>> \in (ConfigIds \cup PoolConfigs) \X (1..2) :
                             d <= Len(PollingConfig(c))}}

DeviceOf(t) == PollingConfig(t.cfg)[t.d]
GroupOf(t) == DeviceOf(t).pollGroups[t.g]

NoTimer == [cfg |-> "none", d |-> 0, g |-> 0]

\* the (device, group) pairs of a config in the order startPolling visits them
RECURSIVE PairsFrom(_, _, _)
PairsFrom(c, d, g) ==
  IF d > Len(PollingConfig(c)) THEN <<>>
  ELSE IF g > Len(PollingConfig(c)[d].pollGroups) THEN PairsFrom(c, d + 1, 1)
  ELSE <<[cfg |-> c, d |-> d, g |-> g]>> \o PairsFrom(c, d, g + 1)

Pairs(c) == PairsFrom(c, 1, 1)

(* ------------------------------------------------------------------ *)
(* RegisterOptimizer.optimizeRegisterReads                             *)
(* ------------------------------------------------------------------ *)
\* the list as given
Unsorted(regs) == regs

\* every register in a block of its own
Singletons(sorted, i, blocks, currentBlock, maxBlockSize) ==
  [k \in 1..Len(sorted) |-> <<sorted[k]>>]

\* a read command that keeps the first register of its block only
HeadOnly(block) ==
  [startAddress |-> block[1].address, count |-> Len(block), registers |-> <<block[1]>>]

\* [...registers].sort((a, b) => a.address - b.address): stable
RECURSIVE InsertByAddress(_, _)
InsertByAddress(sorted, r) ==
  IF sorted = <<>> THEN <<r>>
  ELSE IF sorted[Len(sorted)].address <= r.address THEN Append(sorted, r)
  ELSE Append(InsertByAddress(SubSeq(sorted, 1, Len(sorted) - 1), r), sorted[Len(sorted)])

RECURSIVE SortByAddress(_)
SortByAddress(regs) ==
  IF regs = <<>> THEN <<>>
  ELSE InsertByAddress(SortByAddress(SubSeq(regs, 1, Len(regs) - 1)), regs[Len(regs)])

\* the loop over sorted[i], i >= 1 (0-based), with the blocks closed so far
\* and the block being filled
RECURSIVE BuildBlocks(_, _, _, _, _)
BuildBlocks(sorted, i, blocks, currentBlock, maxBlockSize) ==
  IF i > Len(sorted) THEN Append(blocks, currentBlock)
  ELSE LET current == sorted[i]
           last == currentBlock[Len(currentBlock)]
           isContiguous == current.address = last.address + 1
           wouldExceedMax == Len(currentBlock) >= maxBlockSize
       IN IF isContiguous /\ ~wouldExceedMax
            THEN BuildBlocks(sorted, i + 1, blocks, Append(currentBlock, current), maxBlockSize)
            ELSE BuildBlocks(sorted, i + 1, Append(blocks, currentBlock), <<current>>, maxBlockSize)

ReadCommand(block) ==
  [startAddress |-> block[1].address, count |-> Len(block), registers |-> block]

optimizeRegisterReads(registers, maxBlockSize) ==
  IF registers = <<>> THEN <<>>
  ELSE LET sorted == SortByAddress(registers)
           blocks == BuildBlocks(sorted, 2, <<>>, <<sorted[1]>>, maxBlockSize)
       IN [b \in 1..Len(blocks) |-> ReadCommand(blocks[b])]

\* the default of the maxBlockSize parameter, which pollGroup does not pass
DefaultMaxBlockSize == 125

\* the read commands of the group a timer polls (line 294)
ReadsTable == [t \in TimerRecs |-> optimizeRegisterReads(GroupOf(t).registers, DefaultMaxBlockSize)]
ReadsOf(t) == ReadsTable[t]

(* ------------------------------------------------------------------ *)
(* The connection cache keys of a device                               *)
(* ------------------------------------------------------------------ *)
\* JSON.stringify(device.connectionParams) once connectToDevice has made
\* sure it holds a protocol: the fields in the order the config lists them
ParamsKey(dev) == [deviceId |-> dev.deviceId, protocolFirst |-> dev.protocolFirst]

\* JSON.stringify({protocol: device.protocol, ...device.connectionParams}):
\* the same fields with protocol first
MergedKey(dev) == [deviceId |-> dev.deviceId, protocolFirst |-> TRUE]

(* ------------------------------------------------------------------ *)
(* agent.deviceConnections and the clients it holds                    *)
(* ------------------------------------------------------------------ *)
PoolKeys == {[deviceId |-> d, protocolFirst |-> f] : d \in {"D1", "D2"}, f \in BOOLEAN}

\* new Map(): no entry under any key
NoConnections == [key \in PoolKeys |-> 0]

\* Map.has / Map.set / Map.delete
has(pool, key) == pool[key] # 0
set(pool, key, c) == [pool EXCEPT ![key] = c]
delete(pool, key) == [pool EXCEPT ![key] = 0]

\* a client whose connectTCP / connectRTUBuffered resolved.  sock is the
\* state of client._client (TCP) or client._port (RTU):
\*   "open"         destroyed false, writable true / isOpen true
\*   "notWritable"  destroyed false, writable false
\*   "destroyed"    destroyed true / isOpen false
Client(dev) == [deviceId |-> dev.deviceId, protocol |-> dev.protocol, sock |-> "open"]

\* connectToDevice's test of a cached client (lines 929-936)
isOpen(cachedClient) ==
  IF cachedClient.protocol = "tcp"
    THEN cachedClient.sock # "destroyed"
    ELSE cachedClient.sock = "open"

\* pollGroup's test before a read (lines 326-336)
needsReconnect(dev, client) ==
  dev.protocol = "tcp" /\ client.sock \in {"destroyed", "notWritable"}

(* ------------------------------------------------------------------ *)
(* ValueCache, DataTransmitBuffer, and what one block read appends     *)
(* ------------------------------------------------------------------ *)
CacheKey(deviceId, registerId) == <<deviceId, registerId>>

DeviceIds == {"D1", "D2"}
RegisterIds == {"r1", "r2", "r3"}
CacheKeys == {CacheKey(d, r) : d \in DeviceIds, r \in RegisterIds}

Sample(deviceId, registerId, value, timestamp, quality, iter) ==
  [deviceId |-> deviceId, registerId |-> registerId, value |-> value,
   timestamp |-> timestamp, quality |-> quality, iter |-> iter]

Change(deviceId, registerId, value, timestamp, iter) ==
  [deviceId |-> deviceId, registerId |-> registerId, value |-> value,
   timestamp |-> timestamp, iter |-> iter]

\* the time of the read itself
ReadTime(iterationTs, clock) == clock

\* the timestamp a good sample of an iteration carries: the one taken at
\* line 297, not the time of the read
GoodTimestamp(iterationTs, clock) == iterationTs

\* readCmd.registers.forEach on a successful read (first attempt or retry);
\* st holds the value cache, the historical buffer, the change buffer and
\* the history of cache writes
RECURSIVE ProcessRegs(_, _, _, _, _, _, _, _)
ProcessRegs(st, k, deviceId, regs, vals, ts, iter, due) ==
  IF k > Len(regs) THEN st
  ELSE LET key == CacheKey(deviceId, regs[k].registerId)
           value == vals[k]
           \* cache.get(key) !== value: an absent entry is undefined
           hasChanged == key \notin DOMAIN st.cache \/ st.cache[key] # value
           st1 == [cache |-> [x \in DOMAIN st.cache \cup {key} |->
                                IF x = key THEN value ELSE st.cache[x]],
                   hist |-> HistAdd(st.hist,
                                    Sample(deviceId, regs[k].registerId, value, ts, "good", iter),
                                    maxBufferSize),
                   tx |-> IF hasChanged \/ due
                            THEN Append(st.tx, Change(deviceId, regs[k].registerId, value, ts, iter))
                            ELSE st.tx,
                   writes |-> st.writes \cup {<<iter, key>>},
                   enq |-> IF hasChanged \/ due THEN [st.enq EXCEPT ![key] = @ + 1] ELSE st.enq,
                   chg |-> IF hasChanged THEN [st.chg EXCEPT ![key] = @ + 1] ELSE st.chg,
                   ticks |-> IF hasChanged THEN st.ticks + 1 ELSE st.ticks]
       IN ProcessRegs(st1, k + 1, deviceId, regs, vals, ts, iter, due)

\* registers.forEach adding a 'bad' sample with value null
RECURSIVE BadRegs(_, _, _, _, _, _)
BadRegs(st, k, deviceId, regs, ts, iter) ==
  IF k > Len(regs) THEN st
  ELSE BadRegs([st EXCEPT !.hist = HistAdd(st.hist,
                                           Sample(deviceId, regs[k].registerId, "null", ts, "bad", iter),
                                           maxBufferSize)],
               k + 1, deviceId, regs, ts, iter)

(* ------------------------------------------------------------------ *)
(* PollingScheduler.startPolling / stopPolling                         *)
(* ------------------------------------------------------------------ *)
NoTimers == [gid \in GroupIds |-> NoTimer]
NoStray == [t \in TimerRecs |-> 0]

\* this.timers.set(group.groupId, timerId) for each pair in turn: an entry
\* already set under that groupId is replaced, its interval stays armed
RECURSIVE ArmFrom(_, _, _)
ArmFrom(pairs, k, st) ==
  IF k > Len(pairs) THEN st
  ELSE LET t == pairs[k]
           gid == GroupOf(t).groupId
           old == st.timers[gid]
       IN ArmFrom(pairs, k + 1,
                  [timers |-> [st.timers EXCEPT ![gid] = t],
                   stray |-> IF old = NoTimer THEN st.stray
                             ELSE [st.stray EXCEPT ![old] = @ + 1]])

StrayCount == LET RECURSIVE Sum(_)
                  Sum(S) == IF S = {} THEN 0
                            ELSE LET x == CHOOSE y \in S : TRUE
                                 IN strayTimers[x] + Sum(S \ {x})
              IN Sum(TimerRecs)

\* stopPolling: clearInterval for every entry of this.timers, then clear()
stopPolling ==
  /\ schedTimers # NoTimers
  /\ schedTimers' = NoTimers
  /\ UNCHANGED <<schedConfig, strayTimers, iterations, nextIter, deviceConnections,
                 clients, valueCache, changeBuffer, refreshDue, now, finished, cacheWrites,
                 txSince, chgSince, chgTick>>
  /\ UNCHANGED <<dataPoints, notPollVars>>

\* startPolling(config), also reached through updateSchedule
startPolling(c) ==
  /\ StrayCount < MaxStray
  /\ LET armed == ArmFrom(Pairs(c), 1, [timers |-> NoTimers, stray |-> strayTimers])
     IN /\ schedTimers' = armed.timers
        /\ strayTimers' = armed.stray
  /\ schedConfig' = c
  /\ UNCHANGED <<iterations, nextIter, deviceConnections, clients, valueCache, changeBuffer,
                 refreshDue, now, finished, cacheWrites,
                 txSince, chgSince, chgTick>>
  /\ UNCHANGED <<dataPoints, notPollVars>>

\* the interval of timer t is armed
Armed(t) == schedTimers[GroupOf(t).groupId] = t \/ strayTimers[t] > 0

\* how many armed intervals poll (device, group) t
ArmedCount(t) == strayTimers[t] + (IF schedTimers[GroupOf(t).groupId] = t THEN 1 ELSE 0)

(* ------------------------------------------------------------------ *)
(* PollingScheduler.pollGroup                                          *)
(* ------------------------------------------------------------------ *)
\* the address as configured
SameAddress(addr) == addr

\* normalize (lines 318-323), applied to readCmd.startAddress
normalize(addr) ==
  IF addr >= 40001 /\ addr <= 49999 THEN addr - 40001
  ELSE IF addr >= 30001 /\ addr <= 39999 THEN addr - 30001
  ELSE IF addr > 0 THEN addr - 1
  ELSE addr

\* the function applied to readCmd.startAddress for the retry (lines 393-398)
retryStart(addr) ==
  IF addr >= 40001 /\ addr <= 49999 THEN addr - 40001
  ELSE IF addr >= 30001 /\ addr <= 39999 THEN addr - 30001
  ELSE IF addr > 0 THEN addr - 1
  ELSE addr

NoRequest == [start |-> 0, count |-> 0]

\* what line 280 gave the call: nothing yet
NoGot == [cached |-> FALSE, client |-> 0, sock |-> "none"]

\* block it.blk of call it went through ev
Log(it, ev) == [it EXCEPT !.log[it.blk] = Append(@, ev)]

\* client.readHoldingRegisters(start, readCmd.count) for read command k
FirstRead(it, k) ==
  Log([it EXCEPT !.pc = "reading", !.blk = k,
                 !.req = [start |-> normalize(ReadsOf(it.t)[k].startAddress),
                          count |-> ReadsOf(it.t)[k].count]],
      "read")

\* the read of line 346 issued once more for the same read command
ReadAgain(it) == FirstRead(it, it.blk)

\* client.readHoldingRegisters(retryStart, readCmd.count)
RetryRead(it) ==
  Log([it EXCEPT !.pc = "retrying",
                 !.req = [start |-> retryStart(ReadsOf(it.t)[it.blk].startAddress),
                          count |-> ReadsOf(it.t)[it.blk].count]],
      "retry")

Cur == [cache |-> valueCache, hist |-> dataPoints, tx |-> changeBuffer, writes |-> cacheWrites,
        enq |-> txSince, chg |-> chgSince, ticks |-> chgTick]

Summary(it) == [id |-> it.id, t |-> it.t, ts |-> it.ts, acquired |-> it.acquired,
                failed |-> it.failed, read |-> it.read]

\* this.agent.deviceConnections.delete(cacheKey) in pollGroup (lines 340 and
\* 390): the key is the merged one
Evict(it, pool) == delete(pool, MergedKey(DeviceOf(it.t)))

\* the top of the for loop for read command k: past the last command the
\* call returns; for TCP the socket is looked at first, and a destroyed or
\* non-writable one is evicted and connectToDevice(connParams) awaited
Enter(it, k, pool, cl) ==
  IF k > Len(ReadsOf(it.t))
    THEN [done |-> TRUE, it |-> it, pool |-> pool, cl |-> cl]
  ELSE IF needsReconnect(DeviceOf(it.t), cl[it.client])
    THEN [done |-> FALSE, it |-> Log([it EXCEPT !.pc = "refreshing", !.blk = k], "evict"),
          pool |-> Evict(it, pool), cl |-> cl]
  ELSE [done |-> FALSE, it |-> FirstRead(it, k), pool |-> pool, cl |-> cl]

\* an exception of call j that reaches the scheduler and stops its intervals
Escape(j) == schedTimers' = NoTimers /\ UNCHANGED strayTimers

\* the outer try / catch of pollGroup (lines 274 and 426-428): whatever a
\* step of call j ran into, nothing is rethrown to the interval and the
\* intervals stay as they are
Contain(j) == UNCHANGED <<schedTimers, strayTimers>>

\* the state a step of call j leaves
Commit(j, e, st) ==
  /\ deviceConnections' = e.pool
  /\ clients' = e.cl
  /\ valueCache' = st.cache
  /\ dataPoints' = st.hist
  /\ changeBuffer' = st.tx
  /\ cacheWrites' = st.writes
  /\ txSince' = st.enq
  /\ chgSince' = st.chg
  /\ chgTick' = st.ticks
  /\ IF e.done
       THEN /\ iterations' = RemoveAt(iterations, j)
            /\ finished' = finished \cup {Summary(e.it)}
       ELSE /\ iterations' = [iterations EXCEPT ![j] = e.it]
            /\ UNCHANGED finished
  /\ Contain(j)
  /\ UNCHANGED <<schedConfig, nextIter, refreshDue, now>>
  /\ UNCHANGED notPollVars

\* a failed read command that leaves no trace
SkipBlock(st, it) == st

\* the registers a failed read command marks bad
BadBlock(st, it) ==
  BadRegs(st, 1, DeviceOf(it.t).deviceId, ReadsOf(it.t)[it.blk].registers, it.ts, it.id)

\* a forEach that queues every register it has read
QueueAll(st, it, vals) ==
  ProcessRegs(st, 1, DeviceOf(it.t).deviceId, ReadsOf(it.t)[it.blk].registers, vals,
              GoodTimestamp(it.ts, now), it.id, TRUE)

GoodBlock(st, it, vals) ==
  ProcessRegs(st, 1, DeviceOf(it.t).deviceId, ReadsOf(it.t)[it.blk].registers, vals,
              GoodTimestamp(it.ts, now), it.id, refreshDue)

MarkFailed(it) == [it EXCEPT !.failed = @ \cup {it.blk}]
MarkRead(it) == [it EXCEPT !.read = @ \cup {it.blk}]

\* connectToDevice up to its first await (lines 922-945): a cached client
\* that passes the isOpen test is returned, a stale one is dropped and a
\* connection is attempted
CacheHit(key) ==
  has(deviceConnections, key) /\ isOpen(clients[deviceConnections[key]])

\* connectToDevice from its connect on (lines 947-990): the new client is
\* stored under key and returned
Connected(pool, cl, key, dev) ==
  [pool |-> set(pool, key, Len(cl) + 1), cl |-> Append(cl, Client(dev)), client |-> Len(cl) + 1]

\* the group's interval fires: pollGroup(device, group) up to its first await
TimerFire(t) ==
  /\ Armed(t)
  /\ nextIter' = nextIter + 1
  /\ LET it == [id |-> nextIter, t |-> t, pc |-> "connecting", blk |-> 0, ts |-> now,
                acquired |-> FALSE, failed |-> {}, read |-> {}, req |-> NoRequest,
                client |-> 0, got |-> NoGot,
                log |-> [b \in 1..Len(ReadsOf(t)) |-> <<>>]]
         key == ParamsKey(DeviceOf(t))
     IN IF CacheHit(key)
          THEN LET c == deviceConnections[key]
                   e == Enter([it EXCEPT !.acquired = TRUE, !.client = c,
                                         !.got = [cached |-> TRUE, client |-> c,
                                                  sock |-> clients[c].sock]],
                              1, deviceConnections, clients)
               IN /\ deviceConnections' = e.pool
                  /\ clients' = e.cl
                  /\ IF e.done
                       THEN /\ finished' = finished \cup {Summary(e.it)}
                            /\ UNCHANGED iterations
                       ELSE /\ iterations' = Append(iterations, e.it)
                            /\ UNCHANGED finished
          ELSE /\ deviceConnections' = delete(deviceConnections, key)
               /\ iterations' = Append(iterations, it)
               /\ UNCHANGED <<finished, clients>>
  /\ UNCHANGED <<schedConfig, schedTimers, strayTimers, valueCache, changeBuffer,
                 refreshDue, now, cacheWrites,
                 txSince, chgSince, chgTick>>
  /\ UNCHANGED <<dataPoints, notPollVars>>

\* line 280 settles: the connection is there (cached under the params key),
\* or connectToDevice gave up and every register of the group is marked bad
ConnectDone(j, ok) ==
  /\ j \in 1..Len(iterations) /\ iterations[j].pc = "connecting"
  /\ LET it == [iterations[j] EXCEPT !.ts = now]
         dev == DeviceOf(it.t)
         n == Connected(deviceConnections, clients, ParamsKey(dev), dev)
     IN IF ok
          THEN Commit(j, Enter([it EXCEPT !.acquired = TRUE, !.client = n.client,
                                          !.got = [cached |-> FALSE, client |-> n.client,
                                                   sock |-> "open"]],
                               1, n.pool, n.cl), Cur)
          ELSE Commit(j, [done |-> TRUE, it |-> it, pool |-> deviceConnections, cl |-> clients],
                      BadRegs(Cur, 1, dev.deviceId, GroupOf(it.t).registers, it.ts, it.id))

\* line 342 settles.  A failure is thrown into the read's catch block, where
\* connErr says whether its message matches the connection-error pattern
RefreshDone(j, ok, connErr) ==
  /\ j \in 1..Len(iterations) /\ iterations[j].pc = "refreshing"
  /\ LET it == iterations[j]
         dev == DeviceOf(it.t)
         n == Connected(deviceConnections, clients, MergedKey(dev), dev)
     IN IF ok
          THEN Commit(j, [done |-> FALSE,
                          it |-> FirstRead(Log([it EXCEPT !.client = n.client], "acquire"), it.blk),
                          pool |-> n.pool, cl |-> n.cl], Cur)
        ELSE IF connErr
          THEN Commit(j, [done |-> FALSE,
                          it |-> Log(Log([it EXCEPT !.pc = "reconnecting"], "connErr"), "evict"),
                          pool |-> Evict(it, deviceConnections), cl |-> clients], Cur)
        ELSE Commit(j, Enter(MarkFailed(Log(it, "otherErr")), it.blk + 1, deviceConnections, clients),
                    BadBlock(Cur, it))

ReadResults == {"ok", "connErr", "otherErr"}

\* the readHoldingRegisters of line 346 settles; it can only have been
\* answered over a socket that is still open
ReadDone(j, res, vals) ==
  /\ j \in 1..Len(iterations) /\ iterations[j].pc = "reading"
  /\ res = "ok" => clients[iterations[j].client].sock = "open"
  /\ LET it == iterations[j]
     IN /\ vals \in [1..ReadsOf(it.t)[it.blk].count -> Values]
        /\ CASE res = "ok" ->
                  Commit(j, Enter(MarkRead(Log(it, "ok")), it.blk + 1, deviceConnections, clients),
                         GoodBlock(Cur, it, vals))
             [] res = "connErr" ->
                  Commit(j, [done |-> FALSE,
                             it |-> Log(Log([it EXCEPT !.pc = "reconnecting"], "connErr"), "evict"),
                             pool |-> Evict(it, deviceConnections), cl |-> clients], Cur)
             [] res = "otherErr" ->
                  Commit(j, Enter(MarkFailed(Log(it, "otherErr")), it.blk + 1,
                                  deviceConnections, clients),
                         BadBlock(Cur, it))

\* the connectToDevice of line 392 settles
ReconnectDone(j, ok) ==
  /\ j \in 1..Len(iterations) /\ iterations[j].pc = "reconnecting"
  /\ LET it == iterations[j]
         dev == DeviceOf(it.t)
         n == Connected(deviceConnections, clients, MergedKey(dev), dev)
     IN IF ok
          THEN Commit(j, [done |-> FALSE,
                          it |-> RetryRead(Log([it EXCEPT !.client = n.client], "acquire")),
                          pool |-> n.pool, cl |-> n.cl], Cur)
          ELSE Commit(j, Enter(MarkFailed(Log(it, "retryErr")), it.blk + 1,
                               deviceConnections, clients),
                      BadBlock(Cur, it))

\* the retry read of line 399 settles
RetryDone(j, ok, vals) ==
  /\ j \in 1..Len(iterations) /\ iterations[j].pc = "retrying"
  /\ ok => clients[iterations[j].client].sock = "open"
  /\ LET it == iterations[j]
     IN /\ vals \in [1..ReadsOf(it.t)[it.blk].count -> Values]
        /\ IF ok
             THEN Commit(j, Enter(MarkRead(Log(it, "ok")), it.blk + 1, deviceConnections, clients),
                         GoodBlock(Cur, it, vals))
             ELSE Commit(j, Enter(MarkFailed(Log(it, "retryErr")), it.blk + 1,
                                  deviceConnections, clients),
                         BadBlock(Cur, it))

\* what may happen to a socket
SockEvents == {"notWritable", "destroyed"}

\* the client is in the pool or held by a call in flight
Referenced(c) ==
  \/ \E key \in PoolKeys : deviceConnections[key] = c
  \/ \E j \in 1..Len(iterations) : iterations[j].client = c

\* the socket (serial port) of a client changes under the agent: the far
\* end closes its side (TCP: no longer writable), the socket is destroyed
\* (RTU: the port is no longer open).  The sockets of clients the agent has
\* no reference to any more are not followed: nothing reads them
SocketEvent(c, s) ==
  /\ c \in 1..Len(clients) /\ Referenced(c)
  /\ \/ clients[c].sock = "open" /\ s = "notWritable" /\ clients[c].protocol = "tcp"
     \/ clients[c].sock # "destroyed" /\ s = "destroyed"
  /\ clients' = [clients EXCEPT ![c].sock = s]
  /\ UNCHANGED <<schedConfig, schedTimers, strayTimers, iterations, nextIter,
                 deviceConnections, valueCache, changeBuffer, refreshDue, now, finished,
                 cacheWrites, txSince, chgSince, chgTick>>
  /\ UNCHANGED <<dataPoints, notPollVars>>

\* the clock advances
Tick ==
  /\ now < MaxTime
  /\ now' = now + 1
  /\ UNCHANGED <<schedConfig, schedTimers, strayTimers, iterations, nextIter,
                 deviceConnections, clients, valueCache, changeBuffer, refreshDue, finished,
                 cacheWrites,
                 txSince, chgSince, chgTick>>
  /\ UNCHANGED <<dataPoints, notPollVars>>

\* fullRefreshInterval has passed since lastFullRefresh
FullRefreshDue ==
  /\ ~refreshDue
  /\ refreshDue' = TRUE
  /\ UNCHANGED <<schedConfig, schedTimers, strayTimers, iterations, nextIter,
                 deviceConnections, clients, valueCache, changeBuffer, now, finished,
                 cacheWrites,
                 txSince, chgSince, chgTick>>
  /\ UNCHANGED <<dataPoints, notPollVars>>

InitPoll ==
  /\ schedConfig = "none"
  /\ schedTimers = NoTimers
  /\ strayTimers = NoStray
  /\ iterations = <<>>
  /\ nextIter = 1
  /\ deviceConnections = NoConnections
  /\ clients = <<>>
  /\ valueCache = <<>>
  /\ changeBuffer = <<>>
  /\ refreshDue = FALSE
  /\ now = 0
  /\ finished = {}
  /\ cacheWrites = {}
  /\ txSince = [key \in CacheKeys |-> 0]
  /\ chgSince = [key \in CacheKeys |-> 0]
  /\ chgTick = 0

(* ------------------------------------------------------------------ *)
(* fetchAndApplyActiveConfig and handleSetPollingConfig                *)
(* ------------------------------------------------------------------ *)
\* handleSetPollingConfig on the housekeeping timers: params.batchWindow
\* restarts the batch-transmit interval, params.historicalBatchInterval
\* the bulk-upload interval (stopX, then startX)
RestartTimers(t, batchWindow, historicalBatchInterval) ==
  [k \in TimerKinds |->
     IF \/ k = "batchTransmit" /\ batchWindow
        \/ k = "historicalUpload" /\ historicalBatchInterval
       THEN StartTimer(StopTimer(t[k]))
       ELSE t[k]]

\* fetchAndApplyActiveConfig up to its fetch: called on the welcome frame
\* of an open socket and by the config-check interval
ConfigFetchStart ==
  /\ ~crashed /\ configFetch < MaxFetch
  /\ \/ \* a 'connected' frame with an agentId (lines 510-514)
        /\ \E i \in 1..Len(sockets) : sockets[i] = "open"
        /\ agentId' = TRUE
     \/ /\ Firing("configCheck")
        /\ UNCHANGED agentId
  /\ configFetch' = configFetch + 1
  /\ requests' = Send("config")
  /\ UNCHANGED <<currentConfigId, settings, lastResponse>>
  /\ UNCHANGED <<agentVars, bufferVars, historyVars, pollVars>>
  /\ UNCHANGED <<histVars, optVars, txVars, cmdVars, keyVars>>

\* what a config check can get: the fetch fails, the answer has hasConfig
\* false, or it carries the config id with its polling_config, which may
\* set each of the three intervals (fullRefreshInterval: as refresh allows)
FetchResponses(ids, refresh) ==
  {[kind |-> k, id |-> "none", fullRefreshInterval |-> FALSE, batchWindow |-> FALSE,
    historicalBatchInterval |-> FALSE] : k \in {"networkError", "noConfig"}}
  \cup {[kind |-> "config", id |-> c, fullRefreshInterval |-> f, batchWindow |-> b,
         historicalBatchInterval |-> h] : c \in ids, f \in refresh, b \in BOOLEAN, h \in BOOLEAN}

\* no check treats the config it is given as new
NeverNew(current, configId) == FALSE

\* !this.currentConfigId || this.currentConfigId !== configId
isNewConfig(current, configId) == current = "none" \/ current # configId

DefaultSettings ==
  [fullRefreshInterval |-> "default", batchWindow |-> "default",
   historicalBatchInterval |-> "default"]

\* handleSetPollingConfig on the three intervals: each one the params carry
\* is taken over
ApplySettings(s, resp) ==
  [k \in DOMAIN s |-> IF resp[k] THEN resp.id ELSE s[k]]

\* pollingScheduler.updateSchedule(params): startPolling
\* a polling_config without a devices array: startPolling stops the
\* running schedule, stores the config and throws at `of config.devices`
Malformed == "malformed"

updateSchedule(c) ==
  IF c = Malformed THEN [timers |-> NoTimers, stray |-> strayTimers]
  ELSE ArmFrom(Pairs(c), 1, [timers |-> NoTimers, stray |-> strayTimers])

\* the fetch is answered: a new config goes through handleSetPollingConfig,
\* whatever the channel has done meanwhile; an unchanged one or a failed
\* fetch leave everything alone; without a config a running schedule is
\* stopped and this.currentConfigId cleared
ConfigFetchDone(resp) ==
  /\ ~crashed /\ configFetch > 0
  /\ configFetch' = configFetch - 1
  /\ lastResponse' = [kind |-> resp.kind, id |-> resp.id, found |-> currentConfigId]
  /\ CASE resp.kind = "config" /\ isNewConfig(currentConfigId, resp.id) ->
            /\ StrayCount < MaxStray
            /\ currentConfigId' = resp.id
            /\ settings' = ApplySettings(settings, resp)
            /\ timers' = RestartTimers(timers, resp.batchWindow, resp.historicalBatchInterval)
            /\ schedTimers' = updateSchedule(resp.id).timers
            /\ strayTimers' = updateSchedule(resp.id).stray
            /\ schedConfig' = resp.id
            /\ polling' = (resp.id # Malformed \/ strayTimers # NoStray)
       [] resp.kind = "config" /\ ~isNewConfig(currentConfigId, resp.id) ->
            UNCHANGED <<currentConfigId, settings, timers, schedTimers, strayTimers,
                        schedConfig, polling>>
       [] resp.kind = "noConfig" /\ currentConfigId # "none" ->
            /\ schedTimers' = NoTimers
            /\ currentConfigId' = "none"
            \* the intervals the Map no longer holds keep firing
            /\ polling' = (strayTimers # NoStray)
            /\ UNCHANGED <<settings, timers, strayTimers, schedConfig>>
       [] OTHER ->
            UNCHANGED <<currentConfigId, settings, timers, schedTimers, strayTimers,
                        schedConfig, polling>>
  /\ UNCHANGED <<started, crashed, jwt, sockets, ws, isOnline, reconnectTimeout,
                 connectAwait, refreshAwait>>
  /\ UNCHANGED <<bufferVars, historyVars>>
  /\ UNCHANGED <<iterations, nextIter, deviceConnections, clients, valueCache, changeBuffer,
                 refreshDue, now, finished, cacheWrites, txSince, chgSince, chgTick>>
  /\ UNCHANGED <<histVars, optVars, txVars, authVars, cmdVars, keyVars>>

NoResponse == [kind |-> "none", id |-> "none", found |-> "none"]

\* no config fetch has been started, this.currentConfigId is not set
InitFetch ==
  /\ configFetch = 0
  /\ currentConfigId = "none"
  /\ settings = DefaultSettings
  /\ lastResponse = NoResponse

\* the buffer the agent constructs, still empty
InitHist ==
  /\ histMax = maxBufferSize
  /\ histData = <<>>
  /\ histAdded = <<>>

NoTick == [full |-> FALSE, sent |-> FALSE, quiet |-> FALSE, prevFull |-> FALSE, prevSent |-> FALSE]

\* sendBatchedUpdates has not run
InitTx == lastTick = NoTick

NotCalled == [done |-> FALSE, blocks |-> <<>>]

\* the optimizer is called by pollGroup only
InitOpt ==
  /\ optRegisters = [present |-> FALSE, list |-> <<>>]
  /\ optMax = DefaultMaxBlockSize
  /\ optResult = NotCalled

(* ------------------------------------------------------------------ *)
(* HistoricalDataBuffer on its own                                     *)
(* ------------------------------------------------------------------ *)
\* addDataPoint(deviceId, registerId, value, timestamp, quality)
HistAddDataPoint(value, quality) ==
  /\ Len(histAdded) < MaxAdds
  /\ LET sample == Sample("D1", "r1", value, Len(histAdded), quality, 0)
     IN /\ histData' = HistAdd(histData, sample, histMax)
        /\ histAdded' = Append(histAdded, sample)
  /\ UNCHANGED <<histMax, fetchVars, optVars, txVars, authVars, cmdVars, keyVars>>
  /\ UNCHANGED <<agentVars, bufferVars, historyVars, pollVars>>

\* clearBuffer()
HistClearBuffer ==
  /\ histData' = <<>>
  /\ histAdded' = <<>>
  /\ UNCHANGED <<histMax, fetchVars, optVars, txVars, authVars, cmdVars, keyVars>>
  /\ UNCHANGED <<agentVars, bufferVars, historyVars, pollVars>>

\* new HistoricalDataBuffer(maxBufferSize) with a small cap
InitHistSpec ==
  /\ InitAgent /\ InitPoll /\ InitFetch /\ InitOpt /\ InitTx /\ InitAuth /\ InitCmd /\ InitKey
  /\ offlineBuffer = Undefined
  /\ histMax \in 1..MaxCap
  /\ histData = <<>>
  /\ histAdded = <<>>

NextHist ==
  \/ \E value \in Values \cup {"null"}, quality \in {"good", "bad"} :
        HistAddDataPoint(value, quality)
  \/ HistClearBuffer

SpecHist == InitHistSpec /\ [][NextHist]_vars

\* C14 (SpecHist): the buffer holds at most maxBufferSize samples, and they
\* are the most recent min(n, maxBufferSize) of the n samples added since
\* the last clear, in insertion order.
C14_NewestWithinCap ==
  LET n == Len(histAdded)
      k == IF n < histMax THEN n ELSE histMax
  IN /\ Len(histData) <= histMax
     /\ histData = [i \in 1..k |-> histAdded[n - k + i]]

\* a buffer with room for two or more samples has overflowed twice
C14_Witness ==
  /\ histMax >= 2
  /\ Len(histAdded) >= histMax + 2
  /\ Len(histData) = histMax

(* ------------------------------------------------------------------ *)
(* RegisterOptimizer.optimizeRegisterReads on its own                  *)
(* ------------------------------------------------------------------ *)
RegisterNames == <<"r1", "r2", "r3", "r4">>

\* register lists of up to MaxRegs registers with distinct registerIds and
\* addresses in 1..MaxAddr, in any order and with addresses shared
RegisterLists ==
  UNION {{[i \in 1..n |-> Reg(RegisterNames[i], a[i])] : a \in [1..n -> 1..MaxAddr]} :
           n \in 0..MaxRegs}

\* the call with its arguments: !registers is true for null / undefined
OptimizerCall(registers, maxBlockSize) ==
  IF ~registers.present THEN <<>> ELSE optimizeRegisterReads(registers.list, maxBlockSize)

OptApply ==
  /\ ~optResult.done
  /\ optResult' = [done |-> TRUE, blocks |-> OptimizerCall(optRegisters, optMax)]
  /\ UNCHANGED <<optRegisters, optMax, fetchVars, histVars, txVars, authVars, cmdVars, keyVars>>
  /\ UNCHANGED <<agentVars, bufferVars, historyVars, pollVars>>

InitOptSpec ==
  /\ InitAgent /\ InitPoll /\ InitFetch /\ InitHist /\ InitTx /\ InitAuth /\ InitCmd /\ InitKey
  /\ offlineBuffer = Undefined
  /\ optRegisters \in {[present |-> FALSE, list |-> <<>>]}
                        \cup {[present |-> TRUE, list |-> l] : l \in RegisterLists}
  /\ optMax \in 1..MaxBlock
  /\ optResult = NotCalled

NextOpt == OptApply

SpecOpt == InitOptSpec /\ [][NextOpt]_vars

\* where register r sits in the blocks
Places(blocks, r) ==
  {<<b, i>> \in (1..Len(blocks)) \X (1..MaxRegs + 1) :
      i <= Len(blocks[b].registers) /\ blocks[b].registers[i] = r}

RECURSIVE TotalCount(_, _)
TotalCount(blocks, b) ==
  IF b > Len(blocks) THEN 0 ELSE Len(blocks[b].registers) + TotalCount(blocks, b + 1)

\* C15 (SpecOpt): the blocks returned hold exactly the input registers,
\* each in exactly one place, none dropped, duplicated or invented; an
\* empty or missing list gives an empty result.
C15_BlocksPartitionInput ==
  optResult.done =>
    LET blocks == optResult.blocks
        list == optRegisters.list
    IN /\ \A r \in Range(list) : Cardinality(Places(blocks, r)) = 1
       /\ TotalCount(blocks, 1) = Len(list)
       /\ (~optRegisters.present \/ list = <<>>) => blocks = <<>>

\* three registers, two of them at the same address, came back in two or
\* more blocks
C15_Witness ==
  /\ optResult.done /\ Len(optRegisters.list) = 3
  /\ \E i, j \in 1..3 : i # j /\ optRegisters.list[i].address = optRegisters.list[j].address
  /\ Len(optResult.blocks) >= 2

\* C16 (SpecOpt): in every block count is the number of its registers and
\* at most maxBlockSize, startAddress is the address of its first register
\* and consecutive registers are one address apart; the blocks are in
\* ascending startAddress order.
C16_BlockShape ==
  optResult.done =>
    LET blocks == optResult.blocks
    IN /\ \A b \in 1..Len(blocks) :
             /\ blocks[b].count = Len(blocks[b].registers)
             /\ blocks[b].count >= 1 /\ blocks[b].count <= optMax
             /\ blocks[b].startAddress = blocks[b].registers[1].address
             /\ \A i \in 1..(Len(blocks[b].registers) - 1) :
                   blocks[b].registers[i + 1].address = blocks[b].registers[i].address + 1
       /\ \A b \in 1..(Len(blocks) - 1) : blocks[b].startAddress <= blocks[b + 1].startAddress

\* a list given out of address order came back with a full block of two
\* and another block
C16_Witness ==
  /\ optResult.done /\ optMax = 2
  /\ \E i \in 1..(Len(optRegisters.list) - 1) :
        optRegisters.list[i].address > optRegisters.list[i + 1].address
  /\ Len(optResult.blocks) >= 2
  /\ \E b \in 1..Len(optResult.blocks) : optResult.blocks[b].count = 2

\* the registers are one run of contiguous, distinct addresses
IsRun(list) ==
  LET A == {list[i].address : i \in 1..Len(list)}
  IN /\ list # <<>>
     /\ Cardinality(A) = Len(list)
     /\ \E lo \in A : A = lo..(lo + Len(list) - 1)

\* C17 (SpecOpt): two consecutive blocks are never mergeable (the next does
\* not start right after the earlier one ends, or the earlier one is full);
\* a run of k contiguous addresses gives ceil(k / maxBlockSize) blocks, all
\* full except possibly the last.
C17_MaximalBlocks ==
  optResult.done =>
    LET blocks == optResult.blocks
        k == Len(optRegisters.list)
    IN /\ \A b \in 1..(Len(blocks) - 1) :
             LET regs == blocks[b].registers
             IN \/ blocks[b + 1].startAddress # regs[Len(regs)].address + 1
                \/ blocks[b].count = optMax
       /\ (optRegisters.present /\ IsRun(optRegisters.list)) =>
             /\ Len(blocks) = (k + optMax - 1) \div optMax
             /\ \A b \in 1..(Len(blocks) - 1) : blocks[b].count = optMax

\* maxBlockSize + 1 contiguous registers came back as a full block and a
\* block of one
C17_Witness ==
  /\ optResult.done /\ optRegisters.present /\ IsRun(optRegisters.list)
  /\ Len(optRegisters.list) = optMax + 1
  /\ Len(optResult.blocks) = 2
  /\ optResult.blocks[1].count = optMax /\ optResult.blocks[2].count = 1

(* ------------------------------------------------------------------ *)
(* Specification of the agent                                          *)
(* ------------------------------------------------------------------ *)
Init == InitAgent /\ InitPoll /\ InitFetch /\ InitHist /\ InitOpt /\ InitTx /\ InitAuth /\ InitCmd /\ InitKey

Next ==
  \/ Main
  \/ ConnectAuthOk
  \/ ConnectAuthFail
  \/ ReconnectFire
  \/ JwtAges
  \/ \E i \in 1..MaxSockets : WsOpen(i)
  \/ \E i \in 1..MaxSockets : WsClose(i)
  \/ JwtRefreshTick
  \/ JwtRefreshOk
  \/ JwtRefreshFail
  \/ ApplyPollingConfig
  \/ addDataPoint
  \/ UploadTick
  \/ \E k \in 1..MaxUploads, r \in Responses : UploadResponse(k, r)
  \/ \E k \in 1..MaxDrains, r \in Responses : DrainResponse(k, r)

Spec == Init /\ [][Next]_vars


\* the control channel alone: no samples are produced, so the uploader and
\* the drain have nothing to do
NextChan ==
  \/ Main
  \/ ConnectAuthOk
  \/ ConnectAuthFail
  \/ ReconnectFire
  \/ JwtAges
  \/ \E i \in 1..MaxSockets : WsOpen(i)
  \/ \E i \in 1..MaxSockets : WsClose(i)
  \/ JwtRefreshTick
  \/ JwtRefreshOk
  \/ JwtRefreshFail

SpecChan == Init /\ [][NextChan]_vars

\* the configs the config endpoint answers with in SpecHouse, where their
\* polling_config leaves fullRefreshInterval alone
HouseConfigs == {"A"}

\* the control channel with the config fetches
NextHouse ==
  \/ NextChan
  \/ ConfigFetchStart
  \/ \E resp \in FetchResponses(HouseConfigs, {FALSE}) : ConfigFetchDone(resp)

SpecHouse == Init /\ [][NextHouse]_vars

(* ------------------------------------------------------------------ *)
(* Claims on the bulk uploader and the offline drain (under Spec)      *)
(* ------------------------------------------------------------------ *)
Produced == 1..(nextSample - 1)
FailedOutcomes == {"notSuccess", "httpError", "networkError"}

\* C2: at-least-once delivery. Every sample that is no longer in the
\* Historical Buffer was part of an ingest POST that succeeded or has been
\* written to the Offline Buffer (the Historical Buffer's cap is never
\* reached here, so no sample leaves it by overflow).
C2_AtLeastOnce ==
  \A s \in Produced : s \in Range(dataPoints) \/ s \in delivered \/ s \in everBuffered

\* C3: when a bulk upload attempted with the channel Open does not succeed,
\* every sample of its snapshot is in the Offline Buffer when
\* uploadHistoricalData returns.
C3_FailedUploadIsBuffered ==
  lastUpload.outcome \in FailedOutcomes => lastUpload.inOffline

\* C4: when the bulk uploader runs with a non-empty Historical Buffer while
\* the channel is not Open, every sample of the snapshot is in the Offline
\* Buffer afterwards and the Historical Buffer is empty.
C4_OfflineUploadIsBuffered ==
  lastUpload.outcome = "offline" => lastUpload.inOffline /\ lastUpload.histEmpty

\* C5: the offline drain is all-or-nothing. It clears the Offline Buffer only
\* if every chunk was answered 2xx with success true; a drain that stops at
\* a chunk leaves the contents it read in the Offline Buffer.
C5_DrainAllOrNothing ==
  /\ lastDrain.cleared => lastDrain.allOk
  /\ lastDrain.stopped => lastDrain.fileKept

(* ------------------------------------------------------------------ *)
(* Claims on the control channel (under SpecChan)                      *)
(* ------------------------------------------------------------------ *)
Live(states) == {i \in 1..Len(sockets) : sockets[i] \in states}

\* C9: at most one WebSocket to the control plane is connecting or open at
\* any time.
C9_SingleSocket == Cardinality(Live({"connecting", "open"})) <= 1

\* C10: reconnect liveness after a failed token exchange. Once a connect()
\* made after the first socket (a reconnect) has failed in refreshJwt, the
\* agent is never left with no socket, no pending reconnect timeout and no
\* connect() in progress.
C10_ReconnectAfterAuthFailure ==
  lastConnect = "authFailed" /\ Len(sockets) > 0 =>
    \/ reconnectTimeout
    \/ connectAwait > 0
    \/ Live({"connecting", "open", "closing"}) # {}


CurrentOpen == ws # 0 /\ sockets[ws] = "open"

\* C11 (SpecChan): whenever the current WebSocket is open, the open handler
\* has completed, each housekeeping timer is armed exactly once (none
\* missing, none with a second untracked instance) and Offline Buffer
\* ingest is stopped.
C11_OpenArmsTimersOnce ==
  CurrentOpen =>
    /\ ~crashed
    /\ \A k \in TimerKinds : timers[k].armed /\ timers[k].leaked = 0
    /\ offlineBuffer.defined /\ ~offlineBuffer.isOffline

\* no WebSocket is connecting or open and the close handler has run
Disconnected == ~isOnline /\ Live({"connecting", "open"}) = {}

\* C12 (SpecHouse): while the control channel is Disconnected no
\* housekeeping timer is armed.
C12_NoTimersWhenDisconnected ==
  Disconnected => \A k \in TimerKinds : ~Firing(k)

\* C13 (SpecChan): the Offline Buffer is in buffering mode if and only if
\* the control channel is not Open.  Stated for the Open half, where a late
\* close event of a superseded socket acts: while the current WebSocket is
\* open the agent is online and the Offline Buffer is not buffering.
C13_OpenMeansNotBuffering ==
  (offlineBuffer.defined /\ CurrentOpen) => (isOnline /\ ~offlineBuffer.isOffline)

(* ------------------------------------------------------------------ *)
(* Specification of the polling engine: the agent is left as built,    *)
(* configs are applied and the group intervals fire                    *)
(* ------------------------------------------------------------------ *)
\* the configs applied in SpecOverlap and SpecTx: single-register groups
TxConfigs == {"B"}

\* the steps of the pollGroup calls in flight, and what happens to the
\* sockets of their clients meanwhile
CallSteps(maxClients, sockEvents) ==
  \/ \E j \in 1..Len(iterations), ok \in BOOLEAN :
        (ok => Len(clients) < maxClients) /\ ConnectDone(j, ok)
  \/ \E j \in 1..Len(iterations), ok \in BOOLEAN, connErr \in BOOLEAN :
        (ok => Len(clients) < maxClients) /\ RefreshDone(j, ok, connErr)
  \/ \E j \in 1..Len(iterations), res \in ReadResults :
        \E vals \in UNION {[1..n -> Values] : n \in 1..2} : ReadDone(j, res, vals)
  \/ \E j \in 1..Len(iterations), ok \in BOOLEAN :
        (ok => Len(clients) < maxClients) /\ ReconnectDone(j, ok)
  \/ \E j \in 1..Len(iterations), ok \in BOOLEAN :
        \E vals \in UNION {[1..n -> Values] : n \in 1..2} : RetryDone(j, ok, vals)
  \/ \E c \in 1..maxClients, s \in sockEvents : SocketEvent(c, s)

\* the steps of the pollGroup calls in flight, and the passing of time
PollSteps(maxClients, sockEvents) ==
  \/ CallSteps(maxClients, sockEvents)
  \/ Tick
  \/ FullRefreshDue

\* an armed interval fires, at most maxCalls times and with at most
\* maxInflight calls in flight
Fire(maxInflight, maxCalls) ==
  \E t \in TimerRecs :
     /\ Len(iterations) < maxInflight /\ nextIter <= maxCalls
     /\ TimerFire(t)

\* one config is applied and its intervals fire
NextPoll ==
  \/ \E c \in ConfigIds : schedConfig = "none" /\ startPolling(c)
  \/ Fire(MaxInflight, MaxIters)
  \/ PollSteps(MaxPollClients, SockEvents)

InitPollSpec == Init /\ offlineBuffer = Undefined

SpecPoll == InitPollSpec /\ [][NextPoll]_vars

\* the configs applied in SpecCall: a group read in two commands, and two
\* devices with a group each
CallConfigs == {"A", "B"}

\* the pollGroup calls on their own: one config is applied, its intervals
\* fire, and the calls run while the far end may close a connection; the
\* clock stands still and no full refresh falls due
NextCall ==
  \/ \E c \in CallConfigs : schedConfig = "none" /\ startPolling(c)
  \/ Fire(MaxInflight, MaxIters)
  \/ CallSteps(MaxClients, {"notWritable"})

SpecCall == InitPollSpec /\ [][NextCall]_vars

\* as SpecPoll for a config of single-register groups, with room for a
\* second call while the first is in flight
NextOverlap ==
  \/ \E c \in TxConfigs : schedConfig = "none" /\ startPolling(c)
  \/ Fire(MaxOverlap, MaxOverlap)
  \/ PollSteps(MaxClients, {"notWritable"})

SpecOverlap == InitPollSpec /\ [][NextOverlap]_vars

\* configs are applied one after the other, and polling is stopped
NextSched ==
  \/ \E c \in ConfigIds : startPolling(c)
  \/ stopPolling
  \/ Fire(MaxInflight, MaxIters)
  \/ PollSteps(MaxClients, SockEvents)

SpecSched == InitPollSpec /\ [][NextSched]_vars

(* ------------------------------------------------------------------ *)
(* Claims on the polling engine                                        *)
(* ------------------------------------------------------------------ *)
\* C1 (SpecOverlap): no two pollGroup calls of the same (device, group) are
\* in flight at the same time.
C1_NoReentry ==
  \A i, j \in 1..Len(iterations) : i # j => iterations[i].t # iterations[j].t

\* the positions in the Historical Buffer / Transmit Buffer of the samples
\* call id appended
HistOf(id) == {i \in 1..Len(dataPoints) : dataPoints[i].iter = id}
TxOf(id) == {i \in 1..Len(changeBuffer) : changeBuffer[i].iter = id}

RegsOf(t) == Range(GroupOf(t).registers)
Blocks(t) == 1..Len(ReadsOf(t))
BlockRegs(t, B) == UNION {Range(ReadsOf(t)[b].registers) : b \in B}

\* call f appended exactly one sample of quality q for register r
OneSample(f, r, q) ==
  Cardinality({i \in HistOf(f.id) : /\ dataPoints[i].registerId = r.registerId
                                    /\ dataPoints[i].deviceId = DeviceOf(f.t).deviceId
                                    /\ dataPoints[i].quality = q}) = 1

Succeeded(f) == f.acquired /\ f.failed = {} /\ f.read = Blocks(f.t)

\* C6 (SpecPoll): a call that acquired the connection and read every block
\* (first attempt or retry) appended exactly one 'good' sample per register
\* of the group and nothing else, all with the timestamp of the iteration.
C6_GoodSamples ==
  \A f \in finished :
     Succeeded(f) =>
       /\ \A r \in RegsOf(f.t) : OneSample(f, r, "good")
       /\ Cardinality(HistOf(f.id)) = Len(GroupOf(f.t).registers)
       /\ \A i \in HistOf(f.id) : dataPoints[i].timestamp = f.ts

\* a call over two blocks succeeded and the clock has moved on since its
\* timestamp was taken
C6_Witness ==
  \E f \in finished :
     /\ Succeeded(f) /\ Len(ReadsOf(f.t)) = 2
     /\ now > f.ts
     /\ HistOf(f.id) # {}

Failed(f) == ~f.acquired \/ f.failed # {}

\* the samples a failed call f owes for the registers in regs: one 'bad'
\* sample each with value null and the iteration timestamp, no Transmit
\* Buffer entry and no Value Cache update
BadFor(f, regs) ==
  /\ \A r \in regs : OneSample(f, r, "bad")
  /\ \A i \in HistOf(f.id) :
        dataPoints[i].quality = "bad" =>
          /\ dataPoints[i].value = "null" /\ dataPoints[i].timestamp = f.ts
          /\ \E r \in regs : r.registerId = dataPoints[i].registerId
  /\ \A r \in regs :
        /\ \A i \in TxOf(f.id) : changeBuffer[i].registerId # r.registerId
        /\ <<f.id, CacheKey(DeviceOf(f.t).deviceId, r.registerId)>> \notin cacheWrites

BadCount(f) == Cardinality({i \in HistOf(f.id) : dataPoints[i].quality = "bad"})

\* C7 as stated (SpecPoll): every failed call (no connection, or a block
\* whose read failed after the retry) appended exactly N 'bad' samples, one
\* per register of the group.
C7_AllRegistersBad ==
  \A f \in finished :
     Failed(f) => /\ BadFor(f, RegsOf(f.t))
                  /\ BadCount(f) = Len(GroupOf(f.t).registers)

\* C7 amended (SpecPoll): a call that could not acquire the connection
\* appended one 'bad' sample per register of the group; a call that acquired
\* it appended one 'bad' sample per register of each block whose read failed
\* after the retry, and none for the other blocks; no Transmit Buffer entry
\* and no Value Cache update is made for the registers marked bad.
C7_FailedBlocksBad ==
  \A f \in finished :
     Failed(f) =>
       LET regs == IF f.acquired THEN BlockRegs(f.t, f.failed) ELSE RegsOf(f.t)
       IN /\ BadFor(f, regs)
          /\ BadCount(f) = Cardinality(regs)

\* a call read one block and failed the other
C7_Witness ==
  \E f \in finished :
     /\ f.acquired /\ f.failed # {} /\ f.read # {}
     /\ BadCount(f) > 0
     /\ TxOf(f.id) # {}

\* the start address the spec gives for a configured address
Normalized(addr) ==
  CASE addr \in 40001..49999 -> addr - 40001
    [] addr \in 30001..39999 -> addr - 30001
    [] OTHER -> IF addr > 0 THEN addr - 1 ELSE addr

\* C18 (SpecPoll): every read in flight, first attempt or retry, was issued
\* at the normalized start address of its block with the block's count.
C18_ReadsAtNormalizedAddress ==
  \A j \in 1..Len(iterations) :
     iterations[j].pc \in {"reading", "retrying"} =>
       LET cmd == ReadsOf(iterations[j].t)[iterations[j].blk]
       IN iterations[j].req = [start |-> Normalized(cmd.startAddress), count |-> cmd.count]

\* the retry of the block starting at 40004 is in flight at start address 3
C18_Witness ==
  \E j \in 1..Len(iterations) :
     /\ iterations[j].pc = "retrying"
     /\ ReadsOf(iterations[j].t)[iterations[j].blk].startAddress = 40004
     /\ iterations[j].req.start = 3

\* C8 (SpecSched): after an apply, the armed intervals are exactly one per
\* (device, group) pair of the config applied last.
C8_TimersOfLastConfig ==
  schedTimers # NoTimers =>
    \A t \in TimerRecs :
       ArmedCount(t) = IF t \in Range(Pairs(schedConfig)) THEN 1 ELSE 0

(* ------------------------------------------------------------------ *)
(* ModbusAgent.sendBatchedUpdates                                      *)
(* ------------------------------------------------------------------ *)
\* the batch-transmit interval fires
sendBatchedUpdates ==
  /\ ~crashed /\ Firing("batchTransmit")
  /\ LET isFullRefresh == refreshDue
         \* if (updates.length === 0) return, on the incremental path only
         nothingToSend == ~isFullRefresh /\ changeBuffer = <<>>
         sent == ~nothingToSend /\ CurrentOpen
     IN /\ IF isFullRefresh
             THEN \* resetFullRefreshTimer(); the change buffer is not drained
                  /\ refreshDue' = FALSE
                  /\ txSince' = [key \in CacheKeys |-> 0]
                  /\ chgSince' = [key \in CacheKeys |-> 0]
                  /\ UNCHANGED changeBuffer
             ELSE \* getBufferedChanges()
                  /\ changeBuffer' = <<>>
                  /\ UNCHANGED <<refreshDue, txSince, chgSince>>
        /\ chgTick' = 0
        /\ lastTick' = [full |-> isFullRefresh, sent |-> sent, quiet |-> chgTick = 0,
                        prevFull |-> lastTick.full, prevSent |-> lastTick.sent]
  /\ UNCHANGED <<schedConfig, schedTimers, strayTimers, iterations, nextIter,
                 deviceConnections, clients, valueCache, now, finished, cacheWrites>>
  /\ UNCHANGED <<agentVars, bufferVars, historyVars, fetchVars, histVars, optVars, authVars, cmdVars, keyVars>>

\* the agent with its Offline Buffer connects, a config is applied over the
\* open channel, the group intervals and the batch-transmit interval fire,
\* the channel closes
NextTx ==
  \/ Main
  \/ ConnectAuthOk
  \/ \E i \in 1..MaxSockets : WsOpen(i)
  \/ \E i \in 1..MaxSockets : WsClose(i)
  \/ \E c \in TxConfigs : CurrentOpen /\ schedConfig = "none" /\ startPolling(c)
  \/ Fire(MaxInflight, MaxTxCalls)
  \/ CallSteps(MaxClients, {"notWritable"})
  \/ FullRefreshDue
  \/ sendBatchedUpdates

InitTxSpec == Init /\ offlineBuffer = OfflineBufferNew

SpecTx == InitTxSpec /\ [][NextTx]_vars

\* C19 (SpecTx): for every (deviceId, registerId) the Transmit Buffer
\* entries enqueued since the last full refresh are at most the value
\* changes since then plus one.
C19_EntriesBoundedByChanges ==
  \A key \in CacheKeys : txSince[key] <= chgSince[key] + 1

\* C20 (SpecTx): when a full refresh was sent and no polled value changed
\* until the next batch tick, that tick sends no frame.
C20_NothingAfterFullRefresh ==
  (lastTick.prevFull /\ lastTick.prevSent /\ lastTick.quiet /\ ~lastTick.full)
    => ~lastTick.sent

\* C21 (SpecTx): the Transmit Buffer is bounded.  Stated for the case the
\* claim names: while the batch-transmit interval is stopped and a full
\* refresh is due, the buffer's length stays below the number of polls made
\* (it does not grow with every poll).
C21_TransmitBufferBounded ==
  (~Firing("batchTransmit") /\ refreshDue) => Len(changeBuffer) < MaxTxCalls

(* ------------------------------------------------------------------ *)
(* The connection pool: configs are applied one after the other, two   *)
(* calls may be in flight, sockets change under the agent              *)
(* ------------------------------------------------------------------ *)
NextPool ==
  \/ \E c \in PoolConfigs : startPolling(c)
  \/ Fire(MaxOverlap, MaxPoolCalls)
  \/ CallSteps(MaxClients, SockEvents)

SpecPool == InitPollSpec /\ [][NextPool]_vars

\* C22 (SpecPool): connectToDevice never returns an unhealthy cached
\* client: whenever line 280 was served from the cache, the socket of the
\* client returned was, at that moment, neither destroyed nor non-writable
\* (for RTU: the serial port was open).
C22_CachedHandleHealthy ==
  \A j \in 1..Len(iterations) :
     iterations[j].got.cached => iterations[j].got.sock = "open"

\* the connections to device d the agent has established and that are
\* still open
LiveClients(d) ==
  {c \in 1..Len(clients) : clients[c].deviceId = d /\ clients[c].sock = "open"}

\* C23 (SpecPool): at any time at most one live Modbus connection exists
\* per device.
C23_OneLiveConnectionPerDevice ==
  \A d \in DeviceIds : Cardinality(LiveClients(d)) <= 1

\* the cache keys of device d that hold a client
EntriesOf(d) == {key \in PoolKeys : key.deviceId = d /\ has(deviceConnections, key)}

\* C24 (SpecPool): the key pollGroup evicts is the key connectToDevice
\* stored the client under, for every device whose connection a call has
\* acquired; a call that has just evicted its client (and is re-acquiring)
\* has left no pool entry holding that client; the pool never holds two
\* entries for one device.
C24_EvictionRemovesEntry ==
  /\ \A j \in 1..Len(iterations) :
        iterations[j].acquired =>
          ParamsKey(DeviceOf(iterations[j].t)) = MergedKey(DeviceOf(iterations[j].t))
  /\ \A j \in 1..Len(iterations) :
        iterations[j].pc \in {"refreshing", "reconnecting"} =>
          \A key \in PoolKeys : deviceConnections[key] # iterations[j].client
  /\ \A d \in DeviceIds : Cardinality(EntriesOf(d)) <= 1

\* C26 (SpecPool): a step that activates another config leaves no client
\* in the pool and no connection open.
C26_ApplyClosesConnections ==
  [][schedConfig' # schedConfig =>
       /\ \A key \in PoolKeys : deviceConnections'[key] = 0
       /\ \A c \in 1..Len(clients') : clients'[c].sock = "destroyed"]_vars

\* how often block log l went through ev
Count(l, ev) == Cardinality({p \in 1..Len(l) : l[p] = ev})

\* call f appended no sample of quality q for register r
NoSample(f, r, q) ==
  \A i \in HistOf(f.id) :
     ~(/\ dataPoints[i].registerId = r.registerId
       /\ dataPoints[i].deviceId = DeviceOf(f.t).deviceId
       /\ dataPoints[i].quality = q)

\* what call f left in the Historical Buffer for read command b
BlockGood(f, b) ==
  \A r \in BlockRegs(f.t, {b}) : OneSample(f, r, "good") /\ NoSample(f, r, "bad")
BlockBad(f, b) ==
  \A r \in BlockRegs(f.t, {b}) : OneSample(f, r, "bad") /\ NoSample(f, r, "good")

C27_TornDownResultDiscarded ==
  [][\A j \in 1..Len(iterations) :
        LET it == iterations[j]
        IN ~Armed(it.t) =>
             /\ Cardinality({i \in 1..Len(dataPoints') : dataPoints'[i].iter = it.id})
                   <= Cardinality(HistOf(it.id))
             /\ Cardinality({i \in 1..Len(changeBuffer') : changeBuffer'[i].iter = it.id})
                   <= Cardinality(TxOf(it.id))
             /\ \A w \in cacheWrites' \ cacheWrites : w[1] # it.id]_vars

\* a step of a pollGroup call in flight: no call was started, and a call
\* moved on or ended
CallStep ==
  /\ nextIter' = nextIter
  /\ iterations' # iterations \/ finished' # finished

\* C28 (SpecCall): whatever a pollGroup call runs into (connect failure,
\* read failure, failed retry), its steps leave every poll interval, of its
\* own group and of the others, armed as it was, and the process running.
C28_ErrorsContained ==
  [][CallStep => /\ schedTimers' = schedTimers
                 /\ strayTimers' = strayTimers
                 /\ crashed' = crashed]_vars

\* a call has failed, and the interval of its group and the interval of
\* another group are armed
C28_Witness ==
  \E f \in finished :
     /\ Failed(f) /\ Armed(f.t)
     /\ \E t \in TimerRecs : t # f.t /\ Armed(t)

\* C29 (SpecHouse): every bearer request (ingest POST, drain POST, config
\* GET, status PATCH) is sent with the JWT that refreshJwt stored.
C29_BearerIsStoredJwt ==
  \A r \in requests : r.bearer = r.stored /\ r.stored = "jwt"

(* ------------------------------------------------------------------ *)
(* The config checks                                                   *)
(* ------------------------------------------------------------------ *)
\* the configs the config endpoint answers with
CheckConfigs == {"A", "B"}

\* the agent connects, the welcome frame and the config-check interval
\* start config checks, the checks are answered, the channel closes
NextConfig ==
  \/ Main
  \/ ConnectAuthOk
  \/ \E i \in 1..MaxSockets : WsOpen(i)
  \/ \E i \in 1..MaxSockets : WsClose(i)
  \/ ConfigFetchStart
  \/ \E resp \in FetchResponses(CheckConfigs, BOOLEAN) : ConfigFetchDone(resp)

SpecConfig == InitTxSpec /\ [][NextConfig]_vars

NextStatus ==
  \/ Main
  \/ ConnectAuthOk
  \/ ReconnectFire
  \/ \E i \in 1..MaxSockets : WsOpen(i)
  \/ \E i \in 1..MaxSockets : WsClose(i)
  \/ ConfigFetchStart
  \/ \E resp \in FetchResponses(HouseConfigs, {FALSE}) : ConfigFetchDone(resp)

\* what the agent and the control plane do is done in the end: a connect
\* goes on, a socket being connected opens, a frame or a timer that is due
\* arrives, a fetch is answered.  Nothing makes an open socket close
FairStatus ==
  /\ WF_vars(Main)
  /\ WF_vars(ConnectAuthOk)
  /\ WF_vars(ReconnectFire)
  /\ WF_vars(\E i \in 1..MaxSockets : WsOpen(i))
  /\ WF_vars(ConfigFetchStart)
  /\ WF_vars(\E resp \in FetchResponses(HouseConfigs, {FALSE}) : ConfigFetchDone(resp))

SpecStatus == InitTxSpec /\ [][NextStatus]_vars /\ FairStatus

Patched(status) == \E r \in requests : r.kind = "status" /\ r.status = status

\* C31 (SpecStatus): once the channel is open and the agent knows its id,
\* a status PATCH with buffering_status "online" is issued in the end
\* (unless the channel closes first), and once the channel has closed, one
\* with "buffering" (unless it opens again first).
C31_StatusReported ==
  /\ (isOnline /\ agentId) ~> (Patched("online") \/ ~isOnline)
  /\ (~isOnline /\ agentId) ~> (Patched("buffering") \/ isOnline)

(* ------------------------------------------------------------------ *)
(* handleCommand and the command handlers                              *)
(* ------------------------------------------------------------------ *)
\* connectToDevice(params, retries = 3)
retries == 3

\* what is at the far end of a connection: "up" connects and answers,
\* "flaky" refuses the first connect attempt and is then as "up", "silent"
\* connects and lets every request time out, "down" refuses every attempt
DeviceStates == {"up", "flaky", "silent", "down"}

\* params.functionCode: 0 stands for a missing one
FunctionCodes == {0, 3, 6}

CommandIds == {"c1", "c2"}

\* a handleCommand call: the message (command, commandId, params), the
\* devices its params address (device; net, by the last octet of the scan
\* range), and how far the handler is
Call(name, id, protocol, functionCode, pingCount, device, end, net) ==
  [command |-> name, id |-> id, protocol |-> protocol, functionCode |-> functionCode,
   pingCount |-> pingCount, device |-> device, end |-> end, net |-> net,
   stage |-> "start", attempt |-> 0, i |-> 1, results |-> <<>>,
   \* history: the frames sent, the frames not sent for want of an open
   \* socket, the catch block ran, a request went to the device, the write
   \* request resolved
   out |-> <<>>, unsent |-> 0, threw |-> FALSE, issued |-> FALSE, completed |-> FALSE]

\* the messages handleCommand dispatches, but for set_polling_config
Messages(name) ==
  CASE name \in {"modbus_read", "modbus_write"} ->
         {Call(name, id, "missing", 0, 0, "up", 1, <<>>) : id \in CommandIds}
         \cup {Call(name, id, "tcp", fc, 0, d, 1, <<>>) :
                  id \in CommandIds, fc \in FunctionCodes, d \in DeviceStates}
    [] name = "test_communication" ->
         {Call(name, id, "missing", 0, 0, "up", 1, <<>>) : id \in CommandIds}
         \cup {Call(name, id, "tcp", 0, n, d, 1, <<>>) :
                  id \in CommandIds, n \in 0..MaxPings, d \in DeviceStates}
    [] name = "network_scan" ->
         UNION {{Call(name, id, "tcp", 0, 0, "up", e, n) :
                   id \in CommandIds, n \in [1..e -> DeviceStates]} : e \in 1..ScanLen}
    [] OTHER ->
         {Call(name, id, "missing", 0, 0, "up", 1, <<>>) : id \in CommandIds}

CommandNames ==
  {"modbus_read", "modbus_write", "test_communication", "network_scan",
   "heartbeat_ack", "unknown"}

\* the device the call is talking to
Target(c) == IF c.command = "network_scan" THEN c.net[c.i] ELSE c.device

Frame(id, type, success, devices) ==
  [commandId |-> id, type |-> type, success |-> success, devices |-> devices]

\* ws.send if this.ws is there and OPEN, else nothing
send(c, frame) ==
  IF ws # 0 /\ sockets[ws] = "open" THEN [c EXCEPT !.out = Append(@, frame)]
  ELSE [c EXCEPT !.unsent = @ + 1]

sendResult(c, type, success, devices) == send(c, Frame(c.id, type, success, devices))

\* a catch block that only logs
LogError(c) == [c EXCEPT !.threw = TRUE]

\* the catch block of a handler: sendError(commandId, error.message)
sendError(c) == send([c EXCEPT !.threw = TRUE], Frame(c.id, "error", "none", <<>>))

Return(c) == [c EXCEPT !.stage = "done"]

\* params.functionCode || 3, params.functionCode || 6, params.pingCount || 3
OrDefault(n, default) == IF n = 0 THEN default ELSE n

\* a handler from the client connectToDevice returned to its next await:
\* modbus_read and modbus_write issue the request their function code
\* selects, if it selects one; the other two read holding register 0
WithClient(c) ==
  CASE c.command = "modbus_read" ->
         IF OrDefault(c.functionCode, 3) \in 1..4
           THEN [c EXCEPT !.stage = "io", !.issued = TRUE]
           \* data is undefined, data.data throws
           ELSE Return(sendError(c))
    [] c.command = "modbus_write" ->
         IF OrDefault(c.functionCode, 6) \in {5, 6, 15, 16}
           THEN [c EXCEPT !.stage = "io", !.issued = TRUE]
           ELSE Return(sendResult(c, "modbus_write_result", "true", <<>>))
    [] OTHER -> [c EXCEPT !.stage = "io", !.issued = TRUE]

\* connectToDevice up to its first await, and what the handler does with
\* a throw or a cached client.  cachedOpen: deviceConnections holds an open
\* client under JSON.stringify(params), left there by an earlier command
\* (a missing or stale entry both lead to a new connect)
CommandConnect(c, cachedOpen) ==
  IF c.protocol = "missing" THEN Return(sendError(c))
  ELSE IF cachedOpen THEN WithClient(c)
  ELSE [c EXCEPT !.stage = "connect", !.attempt = 1]

notCmdVars == <<agentVars, bufferVars, historyVars, pollVars, fetchVars, histVars,
                optVars, txVars, authVars, keyVars>>

\* a message that is not the welcome frame arrives: handleCommand.
\* heartbeat_ack and unknown commands are logged
handleCommand(c, cachedOpen) ==
  /\ ~crashed /\ command = NoCommand
  /\ \E i \in 1..Len(sockets) : sockets[i] = "open"
  /\ command' = IF c.command \in {"heartbeat_ack", "unknown"} THEN Return(c)
                ELSE CommandConnect(c, cachedOpen)
  /\ UNCHANGED notCmdVars

\* a connect attempt of connectToDevice ends: the client, the next
\* attempt, or the throw after the last one
CommandConnectDone ==
  /\ ~crashed /\ command.stage = "connect"
  /\ LET c == command
         ok == Target(c) \in {"up", "silent"} \/ (Target(c) = "flaky" /\ c.attempt > 1)
     IN command' = IF ok THEN WithClient(c)
                   ELSE IF c.attempt < retries THEN [c EXCEPT !.attempt = @ + 1]
                   ELSE Return(sendError(c))
  /\ UNCHANGED notCmdVars

\* the request to the device resolves or rejects
CommandIoDone(cachedOpen) ==
  /\ ~crashed /\ command.stage = "io"
  /\ LET c == command
         ok == Target(c) \in {"up", "flaky"}
     IN command' = (
          CASE c.command = "modbus_read" ->
                 Return(IF ok THEN sendResult(c, "modbus_read_result", "none", <<>>)
                        ELSE sendError(c))
            [] c.command = "modbus_write" ->
                 Return(IF ok THEN sendResult([c EXCEPT !.completed = TRUE],
                                              "modbus_write_result", "true", <<>>)
                        ELSE sendError(c))
            [] c.command = "test_communication" ->
                 LET d == [c EXCEPT !.results = Append(@, ok)]
                 IN IF c.i < OrDefault(c.pingCount, 3) THEN [d EXCEPT !.i = @ + 1]
                    ELSE Return(sendResult(d, "test_result",
                                           IF \E k \in 1..Len(d.results) : d.results[k]
                                             THEN "true" ELSE "false", <<>>))
            [] OTHER ->
                 \* network_scan: the address is listed if it answered
                 LET d == IF ok THEN [c EXCEPT !.results = Append(@, c.i)] ELSE c
                 IN IF c.i < c.end THEN CommandConnect([d EXCEPT !.i = @ + 1], cachedOpen)
                    ELSE Return(sendResult(d, "scan_result", "none", d.results)))
  /\ UNCHANGED notCmdVars

\* the handler has returned: the await of handleCommand ends
CommandReturned ==
  /\ ~crashed /\ command.stage = "done"
  /\ command' = NoCommand
  /\ UNCHANGED notCmdVars

\* the params of a set_polling_config command: a config, and whether it
\* sets batchWindow
ConfigParams(ids) ==
  {[kind |-> "config", id |-> c, fullRefreshInterval |-> FALSE, batchWindow |-> b,
    historicalBatchInterval |-> FALSE] : c \in ids, b \in BOOLEAN}

\* handleCommand for set_polling_config: handleSetPollingConfig has no
\* await.  The settings are taken over, the schedule is replaced, and the
\* result frame is sent; a throw of updateSchedule is answered with an
\* error frame.  this.currentConfigId is not touched
handleSetPollingConfig(id, params) ==
  /\ ~crashed /\ command = NoCommand
  /\ \E i \in 1..Len(sockets) : sockets[i] = "open"
  /\ StrayCount < MaxStray
  /\ LET c == Call("set_polling_config", id, "missing", 0, 0, "up", 1, <<>>)
     IN command' = Return(IF params.id = Malformed THEN sendError(c)
                              ELSE sendResult(c, "polling_config_set", "true", <<>>))
  /\ settings' = ApplySettings(settings, params)
  /\ timers' = RestartTimers(timers, params.batchWindow, params.historicalBatchInterval)
  /\ schedTimers' = updateSchedule(params.id).timers
  /\ strayTimers' = updateSchedule(params.id).stray
  /\ schedConfig' = params.id
  /\ polling' = (params.id # Malformed \/ strayTimers # NoStray)
  /\ UNCHANGED <<started, crashed, jwt, sockets, ws, isOnline, reconnectTimeout,
                 connectAwait, refreshAwait>>
  /\ UNCHANGED <<bufferVars, historyVars>>
  /\ UNCHANGED <<iterations, nextIter, deviceConnections, clients, valueCache, changeBuffer,
                 refreshDue, now, finished, cacheWrites, txSince, chgSince, chgTick>>
  /\ UNCHANGED <<configFetch, currentConfigId, lastResponse>>
  /\ UNCHANGED <<histVars, optVars, txVars, authVars, keyVars>>

\* the channel opens and closes while commands arrive and are handled
NextCmd ==
  \/ Main
  \/ ConnectAuthOk
  \/ \E i \in 1..MaxSockets : WsOpen(i)
  \/ \E i \in 1..MaxSockets : WsClose(i)
  \/ \E name \in CommandNames, cachedOpen \in BOOLEAN :
        \E c \in Messages(name) : handleCommand(c, cachedOpen)
  \/ CommandConnectDone
  \/ \E cachedOpen \in BOOLEAN : CommandIoDone(cachedOpen)
  \/ CommandReturned
  \/ \E id \in CommandIds, params \in ConfigParams({"A", Malformed}) :
        handleSetPollingConfig(id, params)

SpecCmd == InitTxSpec /\ [][NextCmd]_vars

\* the commands that are answered: all but heartbeat_ack
Answered ==
  {"set_polling_config", "network_scan", "modbus_read", "modbus_write",
   "test_communication"}

\* the frames of call c are one error frame or one result frame, with
\* the id of the command: the error frame if the handler's catch block
\* ran, else the result frame
OneFrame(c, frames) ==
  /\ Len(frames) = 1
  /\ frames[1].commandId = c.id
  /\ (frames[1].type = "error") = c.threw

Returned(names) == command.stage = "done" /\ command.command \in names

\* C32 as stated (SpecCmd): every recognised command whose handler has
\* returned produced exactly one outbound frame, the error frame with its
\* id if its handler failed and the result frame if it succeeded.
C32_OneFramePerCommand ==
  Returned(Answered \cup {"heartbeat_ack"}) => OneFrame(command, command.out)

\* C32 (SpecCmd): every command but heartbeat_ack whose handler has
\* returned came to exactly one frame, the error frame with its id if the
\* handler failed and the result frame if it succeeded; the frame was sent
\* if the WebSocket was open then, and no other frame was.
C32_OneFrameWhileOpen ==
  Returned(Answered)
    => /\ Len(command.out) + command.unsent = 1
       /\ command.out # <<>> => OneFrame(command, command.out)

C32_Witness ==
  /\ Returned({"modbus_write"}) /\ command.threw /\ command.issued
  /\ command.out = <<Frame(command.id, "error", "none", <<>>)>>

\* the frames of the call that say the command succeeded
Results(c, type) == {k \in 1..Len(c.out) : c.out[k].type = type}

\* C39 (SpecCmd): a modbus_write command that has returned sent a
\* modbus_write_result frame (success true) only if a write request went to
\* the device and resolved, so never for a function code other than 5, 6,
\* 15, 16; a modbus_read with a function code outside 1-4 sent no result
\* frame.
C39_SuccessMeansWritten ==
  /\ Returned({"modbus_write"}) /\ Results(command, "modbus_write_result") # {}
       => /\ command.issued /\ command.completed
          /\ OrDefault(command.functionCode, 6) \in {5, 6, 15, 16}
  /\ Returned({"modbus_read"}) /\ OrDefault(command.functionCode, 3) \notin 1..4
       => Results(command, "modbus_read_result") = {}

\* the addresses of the scanned range whose device answers the probe read
Answering(c) == {a \in 1..c.end : c.net[a] \in {"up", "flaky"}}

\* C40 (SpecCmd): a network_scan that has returned ended with a
\* scan_result frame, not an error, and its list holds every address of
\* the range whose device answers, whatever the other addresses do.
C40_ScanListsAnswering ==
  Returned({"network_scan"})
    => /\ ~command.threw
       /\ Range(command.results) = Answering(command)
       /\ \A k \in 1..Len(command.out) :
             /\ command.out[k].type = "scan_result"
             /\ Range(command.out[k].devices) = Answering(command)

(* ------------------------------------------------------------------ *)
(* Report by exception                                                 *)
(* ------------------------------------------------------------------ *)
\* config A (three registers, two read commands) is applied and polled
\* more than once, while a full refresh may fall due; the device answers
\* every read, at the first attempt or at the retry after a connection
\* error, and a call has returned when the interval fires again (the
\* forEach over a block has no await: calls interleave between blocks only)
NextRbe ==
  \/ schedConfig = "none" /\ startPolling("A")
  \/ Fire(1, MaxCacheCalls)
  \/ \E j \in 1..Len(iterations) : Len(clients) < MaxClients /\ ConnectDone(j, TRUE)
  \/ \E j \in 1..Len(iterations), res \in {"ok", "connErr"} :
        \E vals \in UNION {[1..n -> Values] : n \in 1..2} : ReadDone(j, res, vals)
  \/ \E j \in 1..Len(iterations) : Len(clients) < MaxClients /\ ReconnectDone(j, TRUE)
  \/ \E j \in 1..Len(iterations) :
        \E vals \in UNION {[1..n -> Values] : n \in 1..2} : RetryDone(j, TRUE, vals)
  \/ FullRefreshDue

SpecRbe == InitPollSpec /\ [][NextRbe]_vars

\* what a step appended to a list
Added(old, new) == SubSeq(new, Len(old) + 1, Len(new))

Triple(s) == <<s.deviceId, s.registerId, s.value>>

RECURSIVE Triples(_)
Triples(l) == IF l = <<>> THEN <<>> ELSE <<Triple(Head(l))>> \o Triples(Tail(l))

\* sample s differs from what the Value Cache held before the step
Differs(s) ==
  LET key == CacheKey(s.deviceId, s.registerId)
  IN key \notin DOMAIN valueCache \/ valueCache[key] # s.value

\* C33 (SpecRbe): in every step the registers read successfully (their
\* good samples are appended) have their read value in the Value Cache
\* afterwards, and what the step appends to the Transmit Buffer is, in
\* order, those of them whose value differs from the value cached before
\* (no entry counts as a difference), or all of them if a full refresh is
\* due.
C33_QueuedIffChanged ==
  [][LET good == SelectSeq(Added(dataPoints, dataPoints'), LAMBDA s : s.quality = "good")
     IN /\ \A k \in 1..Len(good) :
             valueCache'[CacheKey(good[k].deviceId, good[k].registerId)] = good[k].value
        /\ Triples(Added(changeBuffer, changeBuffer'))
             = Triples(SelectSeq(good, LAMBDA s : Differs(s) \/ refreshDue))]_vars

\* the entries of the Transmit Buffer that call id queued
QueuedBy(id) == SelectSeq(changeBuffer, LAMBDA c : c.iter = id)

\* two calls have read all three registers; the first queued three
\* entries, the second, in which one value had changed, one
C33_Witness ==
  /\ ~refreshDue
  /\ \A id \in 1..2 : \E f \in finished : f.id = id /\ f.read = {1, 2}
  /\ Len(QueuedBy(1)) = 3
  /\ Len(QueuedBy(2)) = 1

(* ------------------------------------------------------------------ *)
(* ValueCache and its keys                                             *)
(* ------------------------------------------------------------------ *)
\* id strings, as sequences of characters: two without a colon and two
\* with one
IdStrings == {<<"a">>, <<"b">>, <<"a", ":", "b">>, <<"b", ":", "a">>}

\* `${deviceId}:${registerId}`
TemplateKey(deviceId, registerId) == deviceId \o <<":">> \o registerId

\* key.split(':')
RECURSIVE split(_)
split(s) ==
  IF \A k \in 1..Len(s) : s[k] # ":" THEN <<s>>
  ELSE LET k == CHOOSE i \in 1..Len(s) : s[i] = ":" /\ \A j \in 1..(i - 1) : s[j] # ":"
       IN <<SubSeq(s, 1, k - 1)>> \o split(SubSeq(s, k + 1, Len(s)))

\* cache.set(key, value)
Put(f, key, value) == [x \in DOMAIN f \cup {key} |-> IF x = key THEN value ELSE f[x]]

\* updateValue(deviceId, registerId, value)
updateValue(deviceId, registerId, value) ==
  /\ Cardinality(DOMAIN passed) < MaxUpdates \/ <<deviceId, registerId>> \in DOMAIN passed
  /\ keyCache' = Put(keyCache, TemplateKey(deviceId, registerId), value)
  /\ passed' = Put(passed, <<deviceId, registerId>>, value)
  /\ UNCHANGED <<agentVars, bufferVars, historyVars, pollVars, fetchVars, histVars,
                 optVars, txVars, authVars, cmdVars>>

\* getAllValues(): for each entry, const [deviceId, registerId] =
\* key.split(':'), and the update { deviceId, registerId, value }
AllValues(cache) ==
  {[deviceId |-> split(key)[1], registerId |-> split(key)[2], value |-> cache[key]] :
     key \in DOMAIN cache}

NextKey == \E d \in IdStrings, r \in IdStrings, v \in Values : updateValue(d, r, v)

SpecKey == Init /\ [][NextKey]_vars

\* C34 (SpecKey): the updates of a full refresh are, one for one, the id
\* pairs passed to updateValue so far, each with its own deviceId and
\* registerId and the value passed last: no two pairs share a cache entry,
\* and getAllValues gives back the ids as they were passed.
C34_RefreshMatchesPassed ==
  /\ Cardinality(DOMAIN keyCache) = Cardinality(DOMAIN passed)
  /\ AllValues(keyCache)
       = {[deviceId |-> p[1], registerId |-> p[2], value |-> passed[p]] : p \in DOMAIN passed}

(* ------------------------------------------------------------------ *)
(* The optimizer's blocks and the address normalization                *)
(* ------------------------------------------------------------------ *)
\* the addresses on both sides of every boundary of normalize
BoundaryAddrs == {0, 1, 2, 30000, 30001, 39999, 40000, 40001, 49999, 50000}

BoundaryLists ==
  UNION {{[i \in 1..n |-> Reg(RegisterNames[i], a[i])] : a \in [1..n -> BoundaryAddrs]} :
           n \in 1..MaxRegs}

\* optimizeRegisterReads is called for a group whose registers lie at
\* these addresses
InitNormSpec ==
  /\ InitAgent /\ InitPoll /\ InitFetch /\ InitHist /\ InitTx /\ InitAuth /\ InitCmd /\ InitKey
  /\ offlineBuffer = Undefined
  /\ optRegisters \in {[present |-> TRUE, list |-> l] : l \in BoundaryLists}
  /\ optMax \in 1..MaxBlock
  /\ optResult = NotCalled

SpecNorm == InitNormSpec /\ [][NextOpt]_vars

\* C35 (SpecNorm): in every block the optimizer returns, the register at
\* index i (from 0) has an address that normalizes to the normalized
\* start address of the block plus i, the device address data[i] is read
\* from.
C35_IndexMatchesAddress ==
  optResult.done =>
    \A b \in 1..Len(optResult.blocks) :
       LET blk == optResult.blocks[b]
       IN \A i \in 1..blk.count :
            normalize(blk.registers[i].address) = normalize(blk.startAddress) + (i - 1)

\* C36 (Spec): when a drain clears the Offline Buffer, every sample that
\* was in the buffer and not in the drain's snapshot is still in the buffer
\* afterwards.
C36_DrainKeepsLaterSamples ==
  [][Len(drains') < Len(drains) /\ lastDrain'.cleared
       => \A k \in 1..Len(bufferFile) :
             bufferFile[k] \notin Range(lastDrain'.data)
               => bufferFile[k] \in Range(bufferFile')]_vars

\* the agent fetches its config over REST and applies it, the channel
\* opens and closes, the group intervals and the batch-transmit interval
\* fire; the devices answer
NextBatch ==
  \/ Main
  \/ ConnectAuthOk
  \/ \E i \in 1..MaxSockets : WsOpen(i)
  \/ \E i \in 1..MaxSockets : WsClose(i)
  \/ ConfigFetchStart
  \/ \E resp \in FetchResponses(TxConfigs, {FALSE}) : ConfigFetchDone(resp)
  \/ Fire(MaxInflight, MaxIters)
  \/ \E j \in 1..Len(iterations) : Len(clients) < MaxClients /\ ConnectDone(j, TRUE)
  \/ \E j \in 1..Len(iterations) :
        \E vals \in UNION {[1..n -> Values] : n \in 1..2} : ReadDone(j, "ok", vals)
  \/ FullRefreshDue
  \/ sendBatchedUpdates

SpecBatch == InitTxSpec /\ [][NextBatch]_vars

\* C37 (SpecBatch): whenever a step takes entries out of the Transmit Buffer
\* or resets the full-refresh timer, that run of sendBatchedUpdates sent
\* its data_update frame.
C37_DrainedMeansSent ==
  [][Len(changeBuffer') < Len(changeBuffer) \/ (refreshDue /\ ~refreshDue')
       => lastTick'.sent]_vars

(* ------------------------------------------------------------------ *)
(* currentConfigId and the running schedule                            *)
(* ------------------------------------------------------------------ *)
\* the control plane assigns config A or a config whose polling_config
\* has no devices, and sends config B in set_polling_config commands
NextSet ==
  \/ Main
  \/ ConnectAuthOk
  \/ \E i \in 1..MaxSockets : WsOpen(i)
  \/ \E i \in 1..MaxSockets : WsClose(i)
  \/ ConfigFetchStart
  \/ \E resp \in FetchResponses({"A", Malformed}, {FALSE}) : ConfigFetchDone(resp)
  \/ \E id \in CommandIds, params \in ConfigParams({"B"}) :
        handleSetPollingConfig(id, params)
  \/ CommandReturned

SpecSet == InitTxSpec /\ [][NextSet]_vars

\* C38 (SpecSet): whenever currentConfigId is set, the scheduler runs the
\* polling_config of that config: it is the config last applied and its
\* intervals are armed.
C38_ConfigIdIsRunning ==
  currentConfigId # "none" =>
    /\ schedConfig = currentConfigId
    /\ currentConfigId # Malformed
    /\ \A k \in 1..Len(Pairs(currentConfigId)) : Armed(Pairs(currentConfigId)[k])

====
